---------------------------- MODULE Spec2Model ----------------------------
(***************************************************************************)
(* A model of the session/context lifecycle engine of the conversational  *)
(* agent: ContextManager (src/agent/context_manager.py), Message           *)
(* (src/agent/models.py), StateManager with its auto-save thread           *)
(* (src/agent/state_manager.py), PluginManager (src/agent/plugins/base.py), *)
(* the retry loop of ResponseGenerator (src/agent/response_generator.py)   *)
(* and ConversationAgent with its MessageProcessor                         *)
(* (src/agent/conversation_agent.py, src/agent/message_processor.py).      *)
(*                                                                         *)
(* Texts are sequences of characters, so that Message's strip() is a real  *)
(* conversion.  An optional value (Python's None) is the empty sequence,   *)
(* a present value v is <<v>>.                                             *)
(***************************************************************************)
EXTENDS Integers, Sequences, FiniteSets, TLC

VARIABLES
    messages,       \* ContextManager.messages
    max_messages,   \* ContextManager.max_messages
    model_name,     \* ContextManager.model_name
    file,           \* the file save_to_file / load_from_file work on
    appended,       \* history: non-system turns passed to add_to_context
    sessions,       \* StateManager.sessions: session id -> AgentState object
    heap,           \* the AgentState objects: reference -> fields
    storage,        \* StateManager.storage: key -> stored file
    now,            \* datetime.now(), in hours
    default_ttl_hours, \* StateManager.default_ttl_hours
    updated,        \* history: session id -> its last successful update_session
    plugins,        \* PluginManager.plugins: name -> plugin object
    instances,      \* the plugin objects: reference -> fields
    prev,           \* history: the call before the last one
    retry,          \* one call of ResponseGenerator._retry_with_backoff
    auto_save_enabled, \* StateManager.auto_save_enabled
    worker_pc,      \* where the auto-save thread is in auto_save_worker
    stop_pc,        \* where the caller of StateManager.stop() is in it
    threads,        \* the calls in progress: thread -> its position and locals
    lock,           \* StateManager.lock: owning thread and recursion count
    conversation,   \* ConversationAgent.conversation.messages
    metrics,        \* ConversationAgent.metrics
    tools,          \* ConversationAgent.tools
    last           \* the last call: operation, arguments, result, error

ctx_vars == <<messages, max_messages, model_name, file>>

store_vars == <<sessions, heap, storage, now, default_ttl_hours, updated>>

plugin_vars == <<plugins, instances, prev>>

agent_vars == <<conversation, metrics, tools>>

\* the state of the threads, and the fields of the ConversationAgent, which
\* no operation of the other components reads or writes
thread_vars == <<auto_save_enabled, worker_pc, stop_pc, threads, lock,
                 agent_vars>>

vars == <<ctx_vars, appended, store_vars, plugin_vars, retry, thread_vars,
          last>>

(***************************************************************************)
(* Bounds of the model.                                                    *)
(***************************************************************************)
MaxLen == 3          \* longest window explored
MaxMessagesBound == 2 \* largest max_messages explored
MaxAppends == 4      \* add_to_context calls counted by the history variable
MaxNow == 2          \* the clock runs from 0 to MaxNow
\* the TTLs a StateManager is configured with, in hours (positive)
TtlHours == {1, 2}
MaxObjects == 2      \* AgentState objects constructed in one run
MaxConversation == 1 \* longest conversation of a session
MaxPluginObjects == 2 \* plugin objects constructed in one run
MaxRetries == 4      \* largest config.max_retries explored

\* the instants a timestamp can be: two, so that turns can tie and can be
\* inserted against the order of their timestamps
Times == {0, 1}

None == <<>>
Some(v) == <<v>>

Roles == {"user", "assistant", "system"}

(***************************************************************************)
(* Texts.                                                                  *)
(***************************************************************************)
RECURSIVE LStrip(_)
LStrip(t) ==
    IF t # <<>> /\ Head(t) = " " THEN LStrip(Tail(t)) ELSE t

RECURSIVE RStrip(_)
RStrip(t) ==
    IF t # <<>> /\ t[Len(t)] = " " THEN RStrip(SubSeq(t, 1, Len(t) - 1)) ELSE t

\* str.strip()
Strip(t) == RStrip(LStrip(t))

\* `needle in text`
Contains(text, needle) ==
    \E i \in 0..(Len(text) - Len(needle)) :
        SubSeq(text, i + 1, i + Len(needle)) = needle

(***************************************************************************)
(* Message (models.py).                                                    *)
(***************************************************************************)
\* Message.validate_content: does construction with this content succeed
ValidContent(content) == content # <<>> /\ Strip(content) # <<>>

\* Message(role=..., content=..., timestamp=..., metadata=...)
Message(role, content, timestamp, metadata) ==
    [role |-> role, content |-> Strip(content),
     timestamp |-> timestamp, metadata |-> metadata]

IsSystem(msg) == msg.role = "system"

NotSystem(msg) == msg.role # "system"

(***************************************************************************)
(* Token counting.  The encoder is the external tokenizer; it is modelled  *)
(* as giving one token for a role name and one per character of a text.    *)
(***************************************************************************)
MessageOverhead == 4

CountTokens(text) == IF text \in Roles THEN 1 ELSE Len(text)

CountMessageTokens(msg) ==
    CountTokens(msg.role) + CountTokens(msg.content) + MessageOverhead

RECURSIVE SumTokens(_)
SumTokens(msgs) ==
    IF msgs = <<>> THEN 0
    ELSE CountMessageTokens(Head(msgs)) + SumTokens(Tail(msgs))

(***************************************************************************)
(* add_to_context                                                          *)
(***************************************************************************)
\* number of turns of the window that are not system turns
NonSystemCount(msgs) == Len(SelectSeq(msgs, NotSystem))

\* a variant that evicts the turn at the front whatever its role: pop(0)
FirstNonSystem_Front(msgs) == IF msgs = <<>> THEN 0 ELSE 1

\* index of the first non-system turn (0 when there is none):
\* the `for i, msg in enumerate(self.messages)` scan
FirstNonSystem(msgs) ==
    IF \E i \in 1..Len(msgs) : NotSystem(msgs[i])
    THEN CHOOSE i \in 1..Len(msgs) :
            /\ NotSystem(msgs[i])
            /\ \A j \in 1..(i - 1) : IsSystem(msgs[j])
    ELSE 0

\* self.messages.pop(i)
Pop(msgs, i) == SubSeq(msgs, 1, i - 1) \o SubSeq(msgs, i + 1, Len(msgs))

\* the window after the eviction step on an overflowing window
EvictOldest(msgs) ==
    IF FirstNonSystem(msgs) = 0 THEN msgs ELSE Pop(msgs, FirstNonSystem(msgs))

\* a variant that evicts as soon as the window is full (>= for >)
AddResult_EvictsWhenFull(msgs, maxm, msg) ==
    LET appendedMsgs == Append(msgs, msg)
    IN  IF NonSystemCount(appendedMsgs) >= maxm
        THEN EvictOldest(appendedMsgs)
        ELSE appendedMsgs

\* the window add_to_context leaves
AddResult(msgs, maxm, msg) ==
    LET appendedMsgs == Append(msgs, msg)
    IN  IF NonSystemCount(appendedMsgs) > maxm
        THEN EvictOldest(appendedMsgs)
        ELSE appendedMsgs

AddToContext(msg) ==
    /\ Len(AddResult(messages, max_messages, msg)) <= MaxLen
    /\ messages' = AddResult(messages, max_messages, msg)
    /\ last' = [op |-> "add_to_context", arg |-> msg, value |-> None,
                error |-> "none", callback |-> None]
    /\ UNCHANGED <<max_messages, model_name, file>>

(***************************************************************************)
(* get_context                                                             *)
(***************************************************************************)
Reverse(s) == [i \in 1..Len(s) |-> s[Len(s) + 1 - i]]

\* a variant that goes on to older turns after one that does not fit
\* (continue for break)
RECURSIVE TakeRecent_Continues(_, _, _, _)
TakeRecent_Continues(rest, total, max_tokens, acc) ==
    IF rest = <<>> THEN acc
    ELSE IF total + CountMessageTokens(Head(rest)) <= max_tokens
         THEN TakeRecent_Continues(Tail(rest),
                                   total + CountMessageTokens(Head(rest)),
                                   max_tokens, Append(acc, Head(rest)))
         ELSE TakeRecent_Continues(Tail(rest), total, max_tokens, acc)

\* the `for message in reversed(other_messages)` loop: rest is what is left
\* of the reversed list, total the tokens so far, acc the result so far
RECURSIVE TakeRecent(_, _, _, _)
TakeRecent(rest, total, max_tokens, acc) ==
    IF rest = <<>> THEN acc
    ELSE IF total + CountMessageTokens(Head(rest)) <= max_tokens
         THEN TakeRecent(Tail(rest),
                         total + CountMessageTokens(Head(rest)),
                         max_tokens, Append(acc, Head(rest)))
         ELSE acc

\* a variant whose key is the timestamp alone
KeyLess_TimestampOnly(a, b) == a.timestamp < b.timestamp

\* the sort key (msg.role != "system", msg.timestamp), compared as tuples
KeyLess(a, b) ==
    \/ IsSystem(a) /\ NotSystem(b)
    \/ IsSystem(a) = IsSystem(b) /\ a.timestamp < b.timestamp

\* insertion of m behind every element whose key is not greater: list.sort is
\* stable
InsertByKey(s, m) ==
    LET k == Cardinality({i \in 1..Len(s) : ~KeyLess(m, s[i])})
    IN  SubSeq(s, 1, k) \o <<m>> \o SubSeq(s, k + 1, Len(s))

RECURSIVE SortFrom(_, _)
SortFrom(sorted, rest) ==
    IF rest = <<>> THEN sorted
    ELSE SortFrom(InsertByKey(sorted, Head(rest)), Tail(rest))

\* result_messages.sort(key=...)
SortByKey(s) == SortFrom(<<>>, s)

\* a variant that does not charge the system turns to the budget
GetContextResult_SystemFree(msgs, max_tokens) ==
    IF msgs = <<>> THEN <<>>
    ELSE LET system_messages == SelectSeq(msgs, IsSystem)
             other_messages == SelectSeq(msgs, NotSystem)
         IN  SortByKey(TakeRecent(Reverse(other_messages), 0,
                                  max_tokens, system_messages))

\* what get_context(max_tokens) returns on the window msgs
GetContextResult(msgs, max_tokens) ==
    IF msgs = <<>> THEN <<>>
    ELSE LET system_messages == SelectSeq(msgs, IsSystem)
             other_messages == SelectSeq(msgs, NotSystem)
         IN  SortByKey(TakeRecent(Reverse(other_messages),
                                  SumTokens(system_messages),
                                  max_tokens, system_messages))

\* a variant that keeps only what it returns (self.messages = result)
GetContextWindow_Truncates(msgs, max_tokens) ==
    GetContextResult(msgs, max_tokens)

\* the window get_context(max_tokens) leaves: it assigns nothing
GetContextWindow(msgs, max_tokens) == msgs

GetContext(max_tokens) ==
    /\ messages' = GetContextWindow(messages, max_tokens)
    /\ last' = [op |-> "get_context", arg |-> max_tokens,
                value |-> GetContextResult(messages, max_tokens),
                error |-> "none", callback |-> None]
    /\ UNCHANGED <<max_messages, model_name, file>>

(***************************************************************************)
(* summarize_old_context                                                   *)
(***************************************************************************)
\* the literal the summary turn's content starts with (the source's Korean
\* "previous conversation summary: " is written "#: ")
SummaryPrefix == <<"#", ":", " ">>

\* a variant without the `len(self.messages) < 2` check
SummarizeRejects_NoLengthCheck(msgs) == SelectSeq(msgs, NotSystem) = <<>>

\* does summarize_old_context raise its ValueError on this window
SummarizeRejects(msgs) ==
    \/ Len(msgs) < 2
    \/ SelectSeq(msgs, NotSystem) = <<>>

\* messages_to_summarize
MessagesToSummarize(msgs) == SelectSeq(msgs, NotSystem)

\* a variant that keeps the summary turn alone
SummarizeResult_DropsSystem(msgs, summary, t) ==
    <<Message("system", SummaryPrefix \o summary, t, None)>>

\* the window a successful summarize_old_context leaves
SummarizeResult(msgs, summary, t) ==
    SelectSeq(msgs, IsSystem)
        \o <<Message("system", SummaryPrefix \o summary, t, None)>>

\* what summarize_old_context returns: `return summary`
SummarizeReturn(summary) == Some(summary)

\* callback: what summarizer_func was called with and what it returned.
\* outcome: Some(summary) when summarizer_func returns summary, None when it
\* raises; t: the clock when the summary turn is constructed
SummarizeOldContext(outcome, t) ==
    /\ UNCHANGED <<max_messages, model_name, file>>
    /\ IF SummarizeRejects(messages)
       THEN /\ messages' = messages
            /\ last' = [op |-> "summarize_old_context", arg |-> None,
                        value |-> None, error |-> "ValueError",
                        callback |-> None]
       ELSE IF outcome = None
       THEN /\ messages' = messages
            /\ last' = [op |-> "summarize_old_context", arg |-> None,
                        value |-> None, error |-> "SummarizerError",
                        callback |-> Some([passed |->
                                             MessagesToSummarize(messages),
                                           returned |-> None])]
       ELSE /\ messages' = SummarizeResult(messages, outcome[1], t)
            /\ last' = [op |-> "summarize_old_context", arg |-> None,
                        value |-> SummarizeReturn(outcome[1]),
                        error |-> "none",
                        callback |-> Some([passed |->
                                             MessagesToSummarize(messages),
                                           returned |-> outcome])]

(***************************************************************************)
(* clear                                                                   *)
(***************************************************************************)
Clear ==
    /\ messages' = <<>>
    /\ last' = [op |-> "clear", arg |-> None, value |-> None,
                error |-> "none", callback |-> None]
    /\ UNCHANGED <<max_messages, model_name, file>>

(***************************************************************************)
(* save_to_file / load_from_file.  The file is absent, holds text that is  *)
(* no JSON, or holds a JSON object (a record; an absent key is a field the *)
(* record does not have).                                                  *)
(***************************************************************************)
NoFile == [kind |-> "absent"]

Garbage == [kind |-> "garbage"]

JsonFile(data) == [kind |-> "json", data |-> data]

\* datetime.isoformat(): the text of a timestamp
Isoformat(t) == <<"iso", t>>

\* the dict save_to_file dumps
SaveData(msgs, maxm, name) ==
    [model_name |-> name,
     max_messages |-> maxm,
     messages |-> [i \in 1..Len(msgs) |->
                    [role |-> msgs[i].role,
                     content |-> msgs[i].content,
                     timestamp |-> Isoformat(msgs[i].timestamp),
                     metadata |-> msgs[i].metadata]]]

\* outcome: "ok"; "mkdir_fails" (nothing written); "dump_fails" (the file
\* was opened for writing, and so truncated, before the failure)
SaveToFile(outcome) ==
    /\ file' = CASE outcome = "ok" ->
                        JsonFile(SaveData(messages, max_messages, model_name))
                 [] outcome = "mkdir_fails" -> file
                 [] OTHER -> Garbage
    /\ last' = [op |-> "save_to_file", arg |-> None, value |-> None,
                error |-> IF outcome = "ok" THEN "none" ELSE "IOError",
                callback |-> None]
    /\ UNCHANGED <<messages, max_messages, model_name>>

\* data.get(key, default)
Get(data, key, default) ==
    IF key \in DOMAIN data THEN data[key] ELSE default

\* msg["role"] or msg["content"] raises KeyError
MessageKeyError(m) == ~({"role", "content"} \subseteq DOMAIN m)

\* Message(...) raises its validation error: a role outside the Literal, or
\* content the validator rejects
MessageInvalid(m) == m.role \notin Roles \/ ~ValidContent(m.content)

\* the error of the list comprehension over data["messages"]: that of the
\* first entry that fails
RECURSIVE LoadMessagesError(_)
LoadMessagesError(docs) ==
    IF docs = <<>> THEN "none"
    ELSE IF MessageKeyError(Head(docs)) THEN "ValueError"
    ELSE IF MessageInvalid(Head(docs)) THEN "ValidationError"
    ELSE LoadMessagesError(Tail(docs))

\* the error load_from_file raises on a JSON object
LoadError(data) ==
    IF "messages" \notin DOMAIN data THEN "ValueError"
    ELSE LoadMessagesError(data.messages)

\* the messages load_from_file builds; stamps[i] is the clock when the i-th
\* Message is constructed (the stored timestamp is not read)
LoadedMessages(docs, stamps) ==
    [i \in 1..Len(docs) |->
        Message(docs[i].role, docs[i].content, stamps[i],
                Get(docs[i], "metadata", None))]

\* the clock read once per constructed message: it never goes back
ClockReadings(n) ==
    {s \in [1..n -> Times] : \A i \in 1..(n - 1) : s[i] <= s[i + 1]}

LoadFromFile ==
    /\ UNCHANGED file
    /\ IF file.kind = "absent"
       THEN /\ last' = [op |-> "load_from_file", arg |-> None,
                        value |-> None, error |-> "FileNotFoundError",
                        callback |-> None]
            /\ UNCHANGED <<messages, max_messages, model_name>>
       ELSE IF file.kind = "garbage"
       THEN /\ last' = [op |-> "load_from_file", arg |-> None,
                        value |-> None, error |-> "ValueError",
                        callback |-> None]
            /\ UNCHANGED <<messages, max_messages, model_name>>
       ELSE /\ model_name' = Get(file.data, "model_name", model_name)
            /\ max_messages' = Get(file.data, "max_messages", max_messages)
            /\ last' = [op |-> "load_from_file", arg |-> None,
                        value |-> None, error |-> LoadError(file.data),
                        callback |-> None]
            /\ IF LoadError(file.data) # "none"
               THEN messages' = messages
               ELSE \E stamps \in ClockReadings(Len(file.data.messages)) :
                       messages' = LoadedMessages(file.data.messages, stamps)

(***************************************************************************)
(* The callers of a ContextManager.                                        *)
(***************************************************************************)
ModelNames == {"gpt-4", "gpt-3.5-turbo"}

\* contents a caller passes to Message(...): the validator strips them
RawContents == {<<"a">>, <<" ", "b", "c">>}

Metadatas == {None, Some([source |-> "cli"])}

\* the turns callers add: constructed Messages with any timestamp
Turns(metas) ==
    {Message(r, c, t, md) : r \in Roles, c \in RawContents, t \in Times,
                            md \in metas}

\* what summarizer_func returns (None: it raises)
SummarizerOutcomes == {None, Some(<<"S">>), Some(<<"S", " ">>)}

\* token budgets callers ask for: around the cost of one, two and three turns
Budgets == {0, 6, 7, 12, 13, 14, 20}

SaveOutcomes == {"ok", "mkdir_fails", "dump_fails"}

InitLast ==
    [op |-> "init", arg |-> None, value |-> None, error |-> "none",
     callback |-> None]

EmptyMap == [x \in {} |-> None]

\* no call of _retry_with_backoff takes part
NoRetry ==
    retry = [pc |-> "none", max_retries |-> 1, attempt |-> 0,
             outcomes |-> <<>>, waits |-> <<>>, last_exception |-> None]

\* ConversationAgent.__init__ without tools: an empty Conversation and the
\* five metrics at zero
NewAgent ==
    /\ conversation = <<>>
    /\ metrics = [total_messages |-> 0, total_tokens |-> 0,
                  total_response_time |-> 0, average_response_time |-> 0,
                  tool_calls |-> 0]
    /\ tools = <<>>

\* no call is followed step by step, and threading.RLock() right after
\* construction: nobody owns it
NoCalls ==
    /\ threads = <<>>
    /\ lock = [owner |-> <<>>, count |-> 0]
    /\ NewAgent

\* no auto-save thread runs and nobody calls stop()
NoWorker ==
    /\ auto_save_enabled = FALSE
    /\ worker_pc = "none"
    /\ stop_pc = "none"
    /\ NoCalls

\* StateManager.__init__ has set auto_save_enabled and started the
\* auto-save thread, which is about to test the loop condition
StartedWorker ==
    /\ auto_save_enabled = TRUE
    /\ worker_pc = "while"
    /\ stop_pc = "none"
    /\ NoCalls

\* no StateManager takes part
NoStore ==
    /\ NoWorker
    /\ sessions = EmptyMap
    /\ heap = EmptyMap
    /\ storage = EmptyMap
    /\ now = 0
    /\ default_ttl_hours = 1
    /\ updated = EmptyMap

\* no PluginManager takes part
NoPlugins ==
    /\ plugins = EmptyMap
    /\ instances = EmptyMap
    /\ prev = InitLast

\* a ContextManager right after construction
InitContext ==
    /\ messages = <<>>
    /\ max_messages \in 1..MaxMessagesBound
    /\ model_name = "gpt-4"
    /\ file = NoFile
    /\ appended = 0
    /\ NoStore
    /\ NoPlugins
    /\ NoRetry
    /\ last = InitLast

(***************************************************************************)
(* SpecAppend: a fresh window that only receives add_to_context calls;     *)
(* appended counts the non-system turns passed in.                         *)
(***************************************************************************)
AppendTurn(msg) ==
    /\ appended < MaxAppends
    /\ AddToContext(msg)
    /\ appended' = appended + (IF NotSystem(msg) THEN 1 ELSE 0)
    /\ UNCHANGED <<store_vars, plugin_vars, retry, thread_vars>>

NextAppend == \E msg \in Turns({None}) : AppendTurn(msg)

SpecAppend == InitContext /\ [][NextAppend]_vars

(***************************************************************************)
(* SpecWindow: the window under add_to_context, summarize_old_context and  *)
(* clear.                                                                  *)
(***************************************************************************)
NextWindow ==
    \/ \E msg \in Turns({None}) : AddToContext(msg) /\ UNCHANGED <<appended, store_vars, plugin_vars, retry, thread_vars>>
    \/ \E o \in SummarizerOutcomes, t \in Times :
          SummarizeOldContext(o, t) /\ UNCHANGED <<appended, store_vars, plugin_vars, retry, thread_vars>>
    \/ Clear /\ UNCHANGED <<appended, store_vars, plugin_vars, retry, thread_vars>>

SpecWindow == InitContext /\ [][NextWindow]_vars

(***************************************************************************)
(* SpecRetrieve: the window under add_to_context and get_context.          *)
(***************************************************************************)
NextRetrieve ==
    \/ \E msg \in Turns({None}) : AddToContext(msg) /\ UNCHANGED <<appended, store_vars, plugin_vars, retry, thread_vars>>
    \/ \E b \in Budgets : GetContext(b) /\ UNCHANGED <<appended, store_vars, plugin_vars, retry, thread_vars>>

SpecRetrieve == InitContext /\ [][NextRetrieve]_vars

(***************************************************************************)
(* SpecPersist: a window some caller has built, under save_to_file and     *)
(* load_from_file on one file.                                             *)
(***************************************************************************)
MaxPersistLen == 2   \* longest window saved and loaded

\* the turns of the windows that are saved: those of Turns, and turns that
\* carry metadata
PersistTurns ==
    Turns({None})
        \cup {Message("user", <<"a">>, t, md) : t \in Times, md \in Metadatas}

\* the windows of at most n turns
Windows(n) ==
    UNION {[1..k -> PersistTurns] : k \in 0..n}

InitPersist ==
    /\ max_messages \in 1..MaxMessagesBound
    /\ messages \in {w \in Windows(MaxPersistLen) :
                        NonSystemCount(w) <= max_messages}
    /\ model_name \in ModelNames
    /\ file = NoFile
    /\ appended = 0
    /\ NoStore
    /\ NoPlugins
    /\ NoRetry
    /\ last = InitLast

NextPersist ==
    \/ \E o \in SaveOutcomes : SaveToFile(o) /\ UNCHANGED <<appended, store_vars, plugin_vars, retry, thread_vars>>
    \/ LoadFromFile /\ UNCHANGED <<appended, store_vars, plugin_vars, retry, thread_vars>>

SpecPersist == InitPersist /\ [][NextPersist]_vars

(***************************************************************************)
(* AgentState and Conversation (state_manager.py, models.py).  A session   *)
(* in the cache is a Python object: sessions maps an id to a reference,    *)
(* heap maps a reference to the object's fields, so that the object        *)
(* get_session returns is the cached one.                                  *)
(***************************************************************************)
SessionIds == {"s1", "s2"}

UserIds == {None, Some("u1")}

EmptyDict == <<>>

\* f without key k / f with k mapped to v
Remove(f, k) == [x \in DOMAIN f \ {k} |-> f[x]]

Put(f, k, v) == [x \in DOMAIN f \cup {k} |-> IF x = k THEN v ELSE f[x]]

\* Conversation() constructed at time t (its uuid is read by no operation)
NewConversation(t) == [messages |-> <<>>, created_at |-> t, updated_at |-> t]

\* AgentState(session_id=..., user_id=..., expires_at=...) constructed at t
AgentState(session_id, user_id, expires_at, t) ==
    [session_id |-> session_id,
     user_id |-> user_id,
     conversation |-> NewConversation(t),
     user_preferences |-> EmptyDict,
     plugin_data |-> EmptyDict,
     created_at |-> t,
     updated_at |-> t,
     expires_at |-> expires_at]

\* a variant that counts the instant of expiry as expired (>= for >)
IsExpired_AtExpiry(state, t) ==
    IF state.expires_at = None THEN FALSE ELSE t >= state.expires_at[1]

\* AgentState.is_expired at time t
IsExpired(state, t) ==
    IF state.expires_at = None THEN FALSE ELSE t > state.expires_at[1]

\* datetime.fromisoformat
FromIsoformat(text) == text[2]

\* AgentState.to_dict
ToDict(state) ==
    [session_id |-> state.session_id,
     user_id |-> state.user_id,
     conversation |->
        [messages |->
            [i \in 1..Len(state.conversation.messages) |->
                [state.conversation.messages[i] EXCEPT
                    !.timestamp = Isoformat(@)]],
         created_at |-> Isoformat(state.conversation.created_at),
         updated_at |-> Isoformat(state.conversation.updated_at)],
     user_preferences |-> state.user_preferences,
     plugin_data |-> state.plugin_data,
     created_at |-> Isoformat(state.created_at),
     updated_at |-> Isoformat(state.updated_at),
     expires_at |-> IF state.expires_at = None THEN None
                    ELSE Some(Isoformat(state.expires_at[1]))]

\* a variant that does not read expires_at back (the field keeps its
\* default, None)
FromDict_NoExpiry(data) ==
    [session_id |-> data.session_id,
     user_id |-> data.user_id,
     conversation |->
        [messages |->
            [i \in 1..Len(data.conversation.messages) |->
                [data.conversation.messages[i] EXCEPT
                    !.timestamp = FromIsoformat(@)]],
         created_at |-> FromIsoformat(data.conversation.created_at),
         updated_at |-> FromIsoformat(data.conversation.updated_at)],
     user_preferences |-> data.user_preferences,
     plugin_data |-> data.plugin_data,
     created_at |-> FromIsoformat(data.created_at),
     updated_at |-> FromIsoformat(data.updated_at),
     expires_at |-> None]

\* AgentState.from_dict
FromDict(data) ==
    [session_id |-> data.session_id,
     user_id |-> data.user_id,
     conversation |->
        [messages |->
            [i \in 1..Len(data.conversation.messages) |->
                [data.conversation.messages[i] EXCEPT
                    !.timestamp = FromIsoformat(@)]],
         created_at |-> FromIsoformat(data.conversation.created_at),
         updated_at |-> FromIsoformat(data.conversation.updated_at)],
     user_preferences |-> data.user_preferences,
     plugin_data |-> data.plugin_data,
     created_at |-> FromIsoformat(data.created_at),
     updated_at |-> FromIsoformat(data.updated_at),
     expires_at |-> IF data.expires_at = None THEN None
                    ELSE Some(FromIsoformat(data.expires_at[1]))]

\* Conversation.add_message at time t, on the object's fields
AddMessageResult(state, role, content, t) ==
    [state EXCEPT
        !.conversation.messages = Append(@, Message(role, content, t, None)),
        !.conversation.updated_at = t]

(***************************************************************************)
(* JSONStorage.  A stored file is JsonFile(document) or Garbage.           *)
(***************************************************************************)
\* JSONStorage.exists
Exists(stor, key) == key \in DOMAIN stor

\* JSONStorage.save: outcome "ok"; "open_fails" (nothing written);
\* "dump_fails" (the file was opened for writing, and so truncated, before
\* the failure).  Both failures raise StorageError.
SaveResult(stor, key, value, outcome) ==
    CASE outcome = "ok" -> Put(stor, key, JsonFile(value))
      [] outcome = "open_fails" -> stor
      [] OTHER -> Put(stor, key, Garbage)

StorageSaveOutcomes == {"ok", "open_fails", "dump_fails"}

\* the error JSONStorage.save raises
SaveError(outcome) == IF outcome = "ok" THEN "none" ELSE "StorageError"

\* one call of a method of the storage backend and the error it raised
StorageCall(method, key, error) ==
    [method |-> method, key |-> key, error |-> error]

(***************************************************************************)
(* StateManager                                                            *)
(***************************************************************************)
\* str(uuid4()): an id that no session in the cache or the store carries
Uuid4 == SessionIds \ (DOMAIN sessions \cup DOMAIN storage)

\* the reference of the next object constructed
NewRef == Cardinality(DOMAIN heap) + 1

\* expires_at of a session created at time t
ExpiryAt(t) == Some(t + default_ttl_hours)

\* a variant that saves before it caches and lets the save's StorageError
\* out (no try/except around storage.save)
CreateSession_SaveFailureRaises(user_id, sid, outcome) ==
    /\ sid \in Uuid4
    /\ NewRef <= MaxObjects
    /\ LET state == AgentState(sid, user_id, ExpiryAt(now), now)
       IN  /\ heap' = Put(heap, NewRef, state)
           /\ sessions' = IF outcome = "ok" THEN Put(sessions, sid, NewRef)
                          ELSE sessions
           /\ storage' = SaveResult(storage, sid, ToDict(state), outcome)
    /\ now' = now
    /\ last' = [op |-> "create_session", arg |-> user_id,
                value |-> IF outcome = "ok" THEN Some(sid) ELSE None,
                error |-> IF outcome = "ok" THEN "none" ELSE "StorageError",
                callback |-> <<StorageCall("save", sid, SaveError(outcome))>>]
    /\ UNCHANGED <<default_ttl_hours, updated, ctx_vars, appended,
                   plugin_vars, retry, thread_vars>>

\* create_session(user_id).  sid: the uuid drawn; outcome: that of
\* storage.save, whose failure is logged
CreateSession(user_id, sid, outcome) ==
    /\ sid \in Uuid4
    /\ NewRef <= MaxObjects
    /\ LET state == AgentState(sid, user_id, ExpiryAt(now), now)
       IN  /\ heap' = Put(heap, NewRef, state)
           /\ sessions' = Put(sessions, sid, NewRef)
           /\ storage' = SaveResult(storage, sid, ToDict(state), outcome)
    /\ now' = now
    /\ last' = [op |-> "create_session", arg |-> user_id,
                value |-> Some(sid), error |-> "none",
                callback |-> <<StorageCall("save", sid, SaveError(outcome))>>]
    /\ UNCHANGED <<default_ttl_hours, updated, ctx_vars, appended,
                   plugin_vars, retry, thread_vars>>

\* JSONStorage.delete(key): the store it leaves and the error it raises;
\* delete_ok: unlink does not fail
StorageDelete(stor, key, delete_ok) ==
    IF ~Exists(stor, key)
    THEN [storage |-> stor, error |-> "NotFoundError"]
    ELSE IF delete_ok
    THEN [storage |-> Remove(stor, key), error |-> "none"]
    ELSE [storage |-> stor, error |-> "StorageError"]

\* what delete_session(sid) does to the cache and the store, and the error
\* it raises.  When storage.delete raises NotFoundError the id is no longer
\* in self.sessions (it was deleted two lines above), so the
\* `if session_id not in self.sessions` test passes and NotFoundError is
\* raised; a StorageError of storage.delete is not caught.
DeleteResult(sess, stor, sid, delete_ok) ==
    LET sess1 == Remove(sess, sid)
        d == StorageDelete(stor, sid, delete_ok)
    IN  [sessions |-> sess1, storage |-> d.storage, error |-> d.error,
         calls |-> <<StorageCall("delete", sid, d.error)>>]

DeleteSession(sid, delete_ok) ==
    LET r == DeleteResult(sessions, storage, sid, delete_ok)
    IN  /\ sessions' = r.sessions
        /\ storage' = r.storage
        /\ last' = [op |-> "delete_session", arg |-> sid, value |-> None,
                    error |-> r.error, callback |-> r.calls]
        /\ updated' = Remove(updated, sid)
        /\ UNCHANGED <<heap, now, default_ttl_hours, ctx_vars, appended,
                       plugin_vars, retry, thread_vars>>

\* JSONStorage.load(key): the error it raises ("none": it returns the
\* document stor[key].data)
StorageLoadError(stor, key) ==
    IF ~Exists(stor, key) THEN "NotFoundError"
    ELSE IF stor[key].kind # "json" THEN "StorageError"
    ELSE "none"

\* the error of a get_session that found the session expired: that of
\* delete_session if it raises, else the NotFoundError of get_session itself
ExpiredError(delete_error) ==
    IF delete_error = "none" THEN "NotFoundError" ELSE delete_error

\* get_session(sid): the error it raises ("none": it returns).  callback is
\* the list of calls it made to the storage backend.
GetSession(sid, delete_ok) ==
    /\ UNCHANGED <<now, default_ttl_hours, ctx_vars, appended, plugin_vars, retry, thread_vars>>
    /\ IF sid \in DOMAIN sessions
       THEN IF IsExpired(heap[sessions[sid]], now)
            THEN LET r == DeleteResult(sessions, storage, sid, delete_ok)
                 IN  /\ sessions' = r.sessions
                     /\ storage' = r.storage
                     /\ heap' = heap
                     /\ updated' = Remove(updated, sid)
                     /\ last' = [op |-> "get_session", arg |-> sid,
                                 value |-> None,
                                 error |-> ExpiredError(r.error),
                                 callback |-> r.calls]
            ELSE /\ UNCHANGED <<sessions, storage, heap, updated>>
                 /\ last' = [op |-> "get_session", arg |-> sid,
                             value |-> Some(sessions[sid]),
                             error |-> "none", callback |-> None]
       ELSE LET e == StorageLoadError(storage, sid)
                load == <<StorageCall("load", sid, e)>>
            IN  IF e # "none"
                THEN \* NotFoundError is raised again as NotFoundError; a
                     \* StorageError of storage.load is not caught
                     /\ UNCHANGED <<sessions, storage, heap, updated>>
                     /\ last' = [op |-> "get_session", arg |-> sid,
                                 value |-> None, error |-> e,
                                 callback |-> load]
                ELSE IF IsExpired(FromDict(storage[sid].data), now)
                THEN LET r == DeleteResult(sessions, storage, sid, delete_ok)
                     IN  /\ sessions' = r.sessions
                         /\ storage' = r.storage
                         /\ heap' = heap
                         /\ updated' = Remove(updated, sid)
                         /\ last' = [op |-> "get_session", arg |-> sid,
                                     value |-> None,
                                     error |-> ExpiredError(r.error),
                                     callback |-> load \o r.calls]
                ELSE /\ NewRef <= MaxObjects
                     /\ heap' = Put(heap, NewRef, FromDict(storage[sid].data))
                     /\ sessions' = Put(sessions, sid, NewRef)
                     /\ storage' = storage
                     /\ updated' = updated
                     /\ last' = [op |-> "get_session", arg |-> sid,
                                 value |-> Some(NewRef), error |-> "none",
                                 callback |-> load]

\* the ids cleanup_expired_sessions collects: the cached sessions that are
\* expired at time t
ExpiredSessions(sess, hp, t) ==
    {sid \in DOMAIN sess : IsExpired(hp[sess[sid]], t)}

\* the `for session_id in expired_sessions` loop over the ids still to do:
\* delete_session on each, its exceptions caught and logged.  fails: the keys
\* whose unlink fails
RECURSIVE CleanupLoop(_, _, _, _, _)
CleanupLoop(todo, sess, stor, fails, calls) ==
    IF todo = {} THEN [sessions |-> sess, storage |-> stor, calls |-> calls]
    ELSE LET sid == CHOOSE x \in todo : TRUE
             r == DeleteResult(sess, stor, sid, sid \notin fails)
         IN  CleanupLoop(todo \ {sid}, r.sessions, r.storage, fails,
                         calls \o r.calls)

\* a variant that returns the number of sessions whose delete_session did
\* not raise
CleanupCount_Deleted(expired, calls) ==
    Cardinality({i \in 1..Len(calls) : calls[i].error = "none"})

\* what cleanup_expired_sessions returns: len(expired_sessions)
CleanupCount(expired, calls) == Cardinality(expired)

\* cleanup_expired_sessions()
CleanupExpiredSessions(fails) ==
    LET expired == ExpiredSessions(sessions, heap, now)
        r == CleanupLoop(expired, sessions, storage, fails, <<>>)
    IN  /\ sessions' = r.sessions
        /\ storage' = r.storage
        /\ updated' = [sid \in DOMAIN updated \ expired |-> updated[sid]]
        /\ last' = [op |-> "cleanup_expired_sessions", arg |-> None,
                    value |-> Some(CleanupCount(expired, r.calls)),
                    error |-> "none", callback |-> r.calls]
        /\ UNCHANGED <<heap, now, default_ttl_hours, ctx_vars, appended,
                       plugin_vars, retry, thread_vars>>

\* a variant that looks for the id in the cache alone (no storage.exists)
UpdateSession_CacheOnly(sid, ref, outcome) ==
    /\ ref \in DOMAIN heap
    /\ UNCHANGED <<now, default_ttl_hours, ctx_vars, appended, plugin_vars, retry, thread_vars>>
    /\ IF sid \notin DOMAIN sessions
       THEN /\ UNCHANGED <<sessions, storage, heap, updated>>
            /\ last' = [op |-> "update_session", arg |-> <<sid, ref>>,
                        value |-> None, error |-> "NotFoundError",
                        callback |-> None]
       ELSE LET state == [heap[ref] EXCEPT !.updated_at = now,
                                           !.session_id = sid]
            IN  /\ heap' = Put(heap, ref, state)
                /\ sessions' = Put(sessions, sid, ref)
                /\ storage' = SaveResult(storage, sid, ToDict(state), outcome)
                /\ updated' = Put(updated, sid, [state |-> ref, at |-> now])
                /\ last' = [op |-> "update_session", arg |-> <<sid, ref>>,
                            value |-> None, error |-> "none",
                            callback |-> <<StorageCall("save", sid,
                                                       SaveError(outcome))>>]

\* update_session(sid, state), state being the object ref; outcome: that of
\* storage.save, whose failure is logged
UpdateSession(sid, ref, outcome) ==
    /\ ref \in DOMAIN heap
    /\ UNCHANGED <<now, default_ttl_hours, ctx_vars, appended, plugin_vars, retry, thread_vars>>
    /\ IF sid \notin DOMAIN sessions /\ ~Exists(storage, sid)
       THEN /\ UNCHANGED <<sessions, storage, heap, updated>>
            /\ last' = [op |-> "update_session", arg |-> <<sid, ref>>,
                        value |-> None, error |-> "NotFoundError",
                        callback |-> None]
       ELSE LET state == [heap[ref] EXCEPT !.updated_at = now,
                                           !.session_id = sid]
            IN  /\ heap' = Put(heap, ref, state)
                /\ sessions' = Put(sessions, sid, ref)
                /\ storage' = SaveResult(storage, sid, ToDict(state), outcome)
                /\ updated' = Put(updated, sid, [state |-> ref, at |-> now])
                /\ last' = [op |-> "update_session", arg |-> <<sid, ref>>,
                            value |-> None, error |-> "none",
                            callback |-> <<StorageCall("save", sid,
                                                       SaveError(outcome))>>]

\* a caller adds a message to the conversation of a session object it holds:
\* state.conversation.add_message(role, content)
AddMessage(ref, role, content) ==
    /\ ref \in DOMAIN heap
    /\ Len(heap[ref].conversation.messages) < MaxConversation
    /\ ValidContent(content)
    /\ heap' = Put(heap, ref, AddMessageResult(heap[ref], role, content, now))
    /\ last' = [op |-> "add_message", arg |-> ref, value |-> None,
                error |-> "none", callback |-> None]
    /\ UNCHANGED <<sessions, storage, now, default_ttl_hours, updated,
                   ctx_vars, appended, plugin_vars, retry, thread_vars>>

\* a caller extends the expiry of a session object it holds:
\* state.extend_expiry(hours); hours is any int, none is rejected
ExtendExpiry(ref, hours) ==
    /\ ref \in DOMAIN heap
    /\ heap' = Put(heap, ref, [heap[ref] EXCEPT !.expires_at = Some(now + hours),
                                               !.updated_at = now])
    /\ last' = [op |-> "extend_expiry", arg |-> <<ref, hours>>, value |-> None,
                error |-> "none", callback |-> None]
    /\ UNCHANGED <<sessions, storage, now, default_ttl_hours, updated,
                   ctx_vars, appended, plugin_vars, retry, thread_vars>>

\* an hour passes
Tick ==
    /\ now < MaxNow
    /\ now' = now + 1
    /\ UNCHANGED <<sessions, heap, storage, default_ttl_hours, updated,
                   ctx_vars, appended, plugin_vars, retry, thread_vars, last>>

(***************************************************************************)
(* StateManager.__init__ over a store that has contents: a new manager is  *)
(* constructed over the files the previous one left (a restart).           *)
(***************************************************************************)
\* a variant that caches a stored session whatever its expiry
LoadKey_KeepsExpired(key, acc, t, fails) ==
    LET e == StorageLoadError(acc.storage, key)
        load == <<StorageCall("load", key, e)>>
    IN  IF e # "none"
        THEN [acc EXCEPT !.calls = @ \o load]
        ELSE LET ref == Cardinality(DOMAIN acc.heap) + 1
             IN  [acc EXCEPT
                    !.sessions = Put(@, key, ref),
                    !.heap = Put(@, ref, FromDict(acc.storage[key].data)),
                    !.calls = @ \o load]

\* one turn of the `for session_id in session_keys` loop of
\* _load_existing_sessions at time t; acc: the cache, the objects, the store
\* and the storage calls so far; fails: the keys whose unlink fails.  Every
\* exception of the turn is caught and logged.
LoadKey(key, acc, t, fails) ==
    LET e == StorageLoadError(acc.storage, key)
        load == <<StorageCall("load", key, e)>>
    IN  IF e # "none"
        THEN [acc EXCEPT !.calls = @ \o load]
        ELSE LET state == FromDict(acc.storage[key].data)
                 ref == Cardinality(DOMAIN acc.heap) + 1
                 d == StorageDelete(acc.storage, key, key \notin fails)
             IN  IF ~IsExpired(state, t)
                 THEN [acc EXCEPT !.sessions = Put(@, key, ref),
                                  !.heap = Put(@, ref, state),
                                  !.calls = @ \o load]
                 ELSE [acc EXCEPT
                         !.storage = d.storage,
                         !.calls = @ \o load
                                     \o <<StorageCall("delete", key, d.error)>>]

\* _load_existing_sessions: the loop over storage.list_keys("*")
RECURSIVE LoadExistingSessions(_, _, _, _)
LoadExistingSessions(keys, acc, t, fails) ==
    IF keys = {} THEN acc
    ELSE LET key == CHOOSE k \in keys : TRUE
         IN  LoadExistingSessions(keys \ {key}, LoadKey(key, acc, t, fails),
                                  t, fails)

\* StateManager(storage): the manager starts with an empty cache and loads
\* the stored sessions
StateManagerInit(fails) ==
    LET r == LoadExistingSessions(DOMAIN storage,
                 [sessions |-> EmptyMap, heap |-> EmptyMap,
                  storage |-> storage, calls |-> <<>>], now, fails)
    IN  /\ sessions' = r.sessions
        /\ heap' = r.heap
        /\ storage' = r.storage
        /\ updated' = EmptyMap
        /\ last' = [op |-> "__init__", arg |-> None, value |-> None,
                    error |-> "none", callback |-> r.calls]
        /\ UNCHANGED <<now, default_ttl_hours, ctx_vars, appended,
                       plugin_vars, retry, thread_vars>>

(***************************************************************************)
(* SpecStore: a StateManager constructed over an empty store, callers     *)
(* that create, look up and delete sessions and sweep the expired ones,   *)
(* and the clock.                                                         *)
(***************************************************************************)
InitStore ==
    /\ StartedWorker
    /\ sessions = EmptyMap
    /\ heap = EmptyMap
    /\ storage = EmptyMap
    /\ now = 0
    /\ default_ttl_hours \in TtlHours
    /\ updated = EmptyMap
    /\ NoPlugins
    /\ NoRetry
    /\ messages = <<>>
    /\ max_messages = 1
    /\ model_name = "gpt-4"
    /\ file = NoFile
    /\ appended = 0
    /\ last = InitLast

NextStore ==
    \/ \E u \in UserIds, sid \in SessionIds, o \in StorageSaveOutcomes :
          CreateSession(u, sid, o)
    \/ \E sid \in SessionIds, ok \in BOOLEAN : GetSession(sid, ok)
    \/ \E sid \in SessionIds, ok \in BOOLEAN : DeleteSession(sid, ok)
    \/ \E fails \in SUBSET SessionIds : CleanupExpiredSessions(fails)
    \/ Tick

SpecStore == InitStore /\ [][NextStore]_vars

(***************************************************************************)
(* SpecStartup: sessions are created, time passes, and a new StateManager  *)
(* is constructed over the store as it then is.                            *)
(***************************************************************************)
NextStartup ==
    \/ \E u \in UserIds, sid \in SessionIds, o \in StorageSaveOutcomes :
          CreateSession(u, sid, o)
    \/ \E fails \in SUBSET SessionIds : StateManagerInit(fails)
    \/ Tick

SpecStartup == InitStore /\ [][NextStartup]_vars

(***************************************************************************)
(* SpecUpdate: a StateManager constructed over an empty store, and callers *)
(* that create sessions, pass session objects they hold to update_session  *)
(* under any id, look sessions up and delete them.                         *)
(***************************************************************************)
NextUpdate ==
    \/ \E u \in UserIds, sid \in SessionIds, o \in StorageSaveOutcomes :
          CreateSession(u, sid, o)
    \/ \E sid \in SessionIds, ref \in 1..MaxObjects,
          o \in StorageSaveOutcomes : UpdateSession(sid, ref, o)
    \/ \E sid \in SessionIds, ok \in BOOLEAN : GetSession(sid, ok)
    \/ \E sid \in SessionIds, ok \in BOOLEAN : DeleteSession(sid, ok)

SpecUpdate == InitStore /\ [][NextUpdate]_vars

(***************************************************************************)
(* SpecExpiry: a StateManager constructed with any int as                  *)
(* default_ttl_hours (__init__ stores the argument as it is), callers that *)
(* create sessions and call extend_expiry with any int on the session      *)
(* objects they hold, and the clock.                                       *)
(***************************************************************************)
\* the ints passed as default_ttl_hours and as hours
AnyHours == {-1, 0, 1}

InitExpiry ==
    /\ StartedWorker
    /\ sessions = EmptyMap
    /\ heap = EmptyMap
    /\ storage = EmptyMap
    /\ now = 0
    /\ default_ttl_hours \in AnyHours
    /\ updated = EmptyMap
    /\ NoPlugins
    /\ NoRetry
    /\ messages = <<>>
    /\ max_messages = 1
    /\ model_name = "gpt-4"
    /\ file = NoFile
    /\ appended = 0
    /\ last = InitLast

NextExpiry ==
    \/ \E u \in UserIds, sid \in SessionIds, o \in StorageSaveOutcomes :
          CreateSession(u, sid, o)
    \/ \E ref \in 1..MaxObjects, hours \in AnyHours : ExtendExpiry(ref, hours)
    \/ Tick

SpecExpiry == InitExpiry /\ [][NextExpiry]_vars

(***************************************************************************)
(* SpecReadBack: callers that create sessions, add a message to the        *)
(* conversation of a session object they hold, pass it to update_session   *)
(* under any id and read sessions back, while the first hour passes.       *)
(***************************************************************************)
\* the hours after which the clock of SpecReadBack ticks
ReadBackHours == {0}

NextReadBack ==
    \/ \E sid \in SessionIds, o \in {"ok", "open_fails"} :
          CreateSession(Some("u1"), sid, o)
    \/ \E ref \in 1..MaxObjects, role \in {"user", "assistant"} :
          AddMessage(ref, role, <<"a">>)
    \/ \E sid \in SessionIds, ref \in 1..MaxObjects,
          o \in {"ok", "open_fails"} : UpdateSession(sid, ref, o)
    \/ \E sid \in SessionIds : GetSession(sid, TRUE)
    \/ now \in ReadBackHours /\ Tick

InitReadBack ==
    /\ InitStore
    /\ default_ttl_hours = 1

SpecReadBack == InitReadBack /\ [][NextReadBack]_vars

(***************************************************************************)
(* Properties.                                                             *)
(***************************************************************************)
Min(a, b) == IF a <= b THEN a ELSE b

\* number of places of s that hold v
Count(s, v) == Cardinality({i \in 1..Len(s) : s[i] = v})

\* s and t hold the same turns the same number of times
SameTurns(s, t) ==
    /\ Len(s) = Len(t)
    /\ \A i \in 1..Len(s) : Count(s, s[i]) = Count(t, s[i])

\* s with its i-th place left out
Without(s, i) ==
    [k \in 1..(Len(s) - 1) |-> IF k < i THEN s[k] ELSE s[k + 1]]

\* C1 (SpecAppend): after each add_to_context on a window that only ever
\* received add_to_context calls, the number of non-system turns is
\* min(non-system turns appended so far, max_messages), and the call
\* removed at most one turn: the window has as many turns as before or one
\* more.
C1_CountIsMinAppended ==
    [][/\ NonSystemCount(messages') = Min(appended', max_messages')
       /\ Len(messages') \in {Len(messages), Len(messages) + 1}]_vars

\* C1 witness: a window that has overflowed: more non-system turns were
\* appended than max_messages, beside a system turn.
C1_Witness ==
    /\ last.op = "add_to_context"
    /\ appended > max_messages
    /\ NonSystemCount(messages) = max_messages
    /\ Len(messages) > max_messages

\* C2 (SpecWindow): add_to_context(m) leaves Append(window, m) when that
\* does not overflow; when it overflows it leaves Append(window, m) without
\* one turn, which is a non-system turn with only system turns before it
\* (the earliest-inserted non-system turn); the system turns are the same and
\* in the same order, and m is the last turn.
C2_EvictsEarliestNonSystem ==
    [][last'.op = "add_to_context" =>
        LET all == Append(messages, last'.arg)
        IN  /\ SelectSeq(messages', IsSystem) = SelectSeq(all, IsSystem)
            /\ messages'[Len(messages')] = last'.arg
            /\ IF NonSystemCount(all) > max_messages
               THEN \E i \in 1..Len(all) :
                       /\ NotSystem(all[i])
                       /\ \A j \in 1..(i - 1) : IsSystem(all[j])
                       /\ messages' = Without(all, i)
               ELSE messages' = all]_vars

\* C2 witness: an add_to_context that evicted a non-system turn standing
\* behind a system turn: the window is full and starts with a system turn.
C2_Witness ==
    /\ last.op = "add_to_context"
    /\ NotSystem(last.arg)
    /\ Len(messages) = MaxLen
    /\ NonSystemCount(messages) = max_messages
    /\ IsSystem(messages[1])

\* C3 as claimed (SpecRetrieve): the cost of what get_context(max_tokens)
\* returns is at most max_tokens unless one system turn of the window alone
\* costs more than max_tokens.
C3_BudgetUnlessOneSystemTurn ==
    last.op = "get_context" =>
        \/ SumTokens(last.value) <= last.arg
        \/ \E i \in 1..Len(messages) :
              /\ IsSystem(messages[i])
              /\ CountMessageTokens(messages[i]) > last.arg

\* C3 amended (SpecRetrieve): the cost of what get_context(max_tokens)
\* returns is at most max_tokens unless the system turns of the window
\* together cost more than max_tokens.
C3_BudgetUnlessSystemTurns ==
    last.op = "get_context" =>
        \/ SumTokens(last.value) <= last.arg
        \/ SumTokens(SelectSeq(messages, IsSystem)) > last.arg

\* C3 witness: a get_context that returned a system turn and a non-system
\* turn within the budget and left a turn out.
C3_Witness ==
    /\ last.op = "get_context"
    /\ SumTokens(last.value) <= last.arg
    /\ Len(last.value) < Len(messages)
    /\ \E i, j \in 1..Len(last.value) :
          IsSystem(last.value[i]) /\ NotSystem(last.value[j])

\* C4 (SpecRetrieve): get_context changes neither the turn list nor
\* max_messages nor the model name, and a get_context that follows a
\* get_context with the same budget returns the same list.
C4_GetContextIsPureRead ==
    [][last'.op = "get_context" =>
        /\ messages' = messages
        /\ max_messages' = max_messages
        /\ model_name' = model_name
        /\ (last.op = "get_context" /\ last.arg = last'.arg
               => last'.value = last.value)]_vars

\* C4 witness: a get_context that returned fewer turns than the window
\* holds, all of which the window still holds.
C4_Witness ==
    /\ last.op = "get_context"
    /\ last.value # <<>>
    /\ Len(last.value) < Len(messages)
    /\ Len(messages) = MaxLen

\* C5 (SpecRetrieve): in what get_context returns no non-system turn stands
\* before a system turn, and among the system turns and among the non-system
\* turns timestamps never decrease.
C5_SystemFirstThenByTimestamp ==
    last.op = "get_context" =>
        \A i, j \in 1..Len(last.value) :
            i < j =>
                /\ IsSystem(last.value[j]) => IsSystem(last.value[i])
                /\ IsSystem(last.value[i]) = IsSystem(last.value[j])
                      => last.value[i].timestamp <= last.value[j].timestamp

\* C5 witness: a result in which a system turn stands before a non-system
\* turn with an earlier timestamp, and two non-system turns were inserted
\* against the order of their timestamps.
C5_Witness ==
    /\ last.op = "get_context"
    /\ \E i, j \in 1..Len(last.value) :
          /\ IsSystem(last.value[i]) /\ NotSystem(last.value[j])
          /\ last.value[i].timestamp > last.value[j].timestamp
    /\ \E i, j \in 1..Len(messages) :
          /\ i < j /\ NotSystem(messages[i]) /\ NotSystem(messages[j])
          /\ messages[i].timestamp > messages[j].timestamp
    /\ Len(last.value) = Len(messages)

\* cost of the n most recent turns of s
RecentCost(s, n) == SumTokens(SubSeq(s, Len(s) - n + 1, Len(s)))

\* C6 (SpecRetrieve): what get_context(max_tokens) returns holds every
\* system turn of the window and, of the non-system turns, exactly the k
\* most recent ones, where k is the largest number such that the system
\* turns and the k most recent non-system turns together cost at most
\* max_tokens (0 when there is none).
C6_LongestRecentRun ==
    last.op = "get_context" =>
        LET system == SelectSeq(messages, IsSystem)
            other == SelectSeq(messages, NotSystem)
            k == Len(SelectSeq(last.value, NotSystem))
        IN  /\ SameTurns(SelectSeq(last.value, IsSystem), system)
            /\ k <= Len(other)
            /\ SameTurns(SelectSeq(last.value, NotSystem),
                         SubSeq(other, Len(other) - k + 1, Len(other)))
            /\ k > 0 => SumTokens(system) + RecentCost(other, k) <= last.arg
            /\ k < Len(other) =>
                  SumTokens(system) + RecentCost(other, k + 1) > last.arg

\* C6 witness: selection stopped at the most recent turn that did not fit
\* although an older turn that was left out would still have fitted.
C6_Witness ==
    /\ last.op = "get_context"
    /\ \E i \in 1..Len(messages) :
          /\ NotSystem(messages[i])
          /\ Count(last.value, messages[i]) = 0
          /\ SumTokens(last.value) + CountMessageTokens(messages[i])
                <= last.arg
    /\ \E i \in 1..Len(messages) : IsSystem(messages[i])

SummarizeOutcome(before, after, call) ==
    LET s == Len(SelectSeq(before, IsSystem))
    IN  /\ call.callback # None
        /\ call.callback[1].passed = SelectSeq(before, NotSystem)
        /\ call.callback[1].passed # <<>>
        /\ call.value = call.callback[1].returned
        /\ Len(after) = s + 1
        /\ SubSeq(after, 1, s) = SelectSeq(before, IsSystem)
        /\ IsSystem(after[s + 1])
        /\ NonSystemCount(after) = 0

\* C9 as claimed (SpecWindow): a successful summarize_old_context passes the
\* non-system turns in order, returns the summarizer's string, and leaves the
\* system turns followed by one new system turn whose content contains the
\* summary.
C9_SummaryTurnContainsSummary ==
    [][(last'.op = "summarize_old_context" /\ last'.error = "none") =>
          /\ SummarizeOutcome(messages, messages', last')
          /\ Contains(messages'[Len(messages')].content,
                      last'.callback[1].returned[1])]_vars

\* C9 amended (SpecWindow): as claimed, except that the new system turn's
\* content contains the summary without its trailing whitespace (Message
\* strips its content).
C9_SummaryTurnContainsStrippedSummary ==
    [][(last'.op = "summarize_old_context" /\ last'.error = "none") =>
          /\ SummarizeOutcome(messages, messages', last')
          /\ Contains(messages'[Len(messages')].content,
                      RStrip(last'.callback[1].returned[1]))]_vars

\* C9 witness: a successful summarize_old_context of two non-system turns on
\* a window that held a system turn, with a summary that ends in a blank.
C9_Witness ==
    /\ last.op = "summarize_old_context"
    /\ last.error = "none"
    /\ Len(last.callback[1].passed) = 2
    /\ Len(messages) = 2
    /\ last.value = Some(<<"S", " ">>)

\* C7 (SpecPersist): a load_from_file that follows a successful save_to_file
\* of the same window succeeds and leaves the model name, max_messages and
\* the turn list as they were saved: every turn with its role, content,
\* metadata and timestamp.
C7_RoundTrip ==
    [][(/\ last.op = "save_to_file" /\ last.error = "none"
        /\ last'.op = "load_from_file") =>
           /\ last'.error = "none"
           /\ model_name' = model_name
           /\ max_messages' = max_messages
           /\ messages' = messages]_vars


PastExpiry(state, t) == state.expires_at # None /\ t > state.expires_at[1]

\* this step is a get_session call
GetSessionStep == last'.op = "get_session" /\ now' = now

\* C11 as claimed: the get_session of an expired session that is cached and
\* stored fails with NotFoundError and leaves it in neither cache nor store
C11_ExpiredGetRemovesBoth ==
    [][(/\ GetSessionStep
        /\ last'.arg \in DOMAIN sessions
        /\ Exists(storage, last'.arg)
        /\ PastExpiry(heap[sessions[last'.arg]], now)) =>
           /\ last'.error = "NotFoundError"
           /\ last'.arg \notin DOMAIN sessions'
           /\ ~Exists(storage', last'.arg)]_vars

\* C11 amended: a cached session is served exactly when it is not past its
\* expiry; the get_session of an expired one that is cached and stored
\* removes it from the cache and asks the store to delete it: when the store
\* deletes it the call fails with NotFoundError and the document is gone,
\* when the store's delete fails the call fails with that StorageError and
\* the store is unchanged
C11_ExpiredGetRemovesUnlessDeleteFails ==
    [][(GetSessionStep /\ last'.arg \in DOMAIN sessions) =>
          LET sid == last'.arg
              state == heap[sessions[sid]]
          IN  /\ (last'.error = "none") <=> ~PastExpiry(state, now)
              /\ ~PastExpiry(state, now) =>
                    /\ last'.value = Some(sessions[sid])
                    /\ UNCHANGED <<sessions, storage, heap>>
              /\ (PastExpiry(state, now) /\ Exists(storage, sid)) =>
                    /\ sid \notin DOMAIN sessions'
                    /\ last'.callback # <<>>
                    /\ last'.callback[1].method = "delete"
                    /\ \/ /\ last'.callback[1].error = "none"
                          /\ last'.error = "NotFoundError"
                          /\ ~Exists(storage', sid)
                       \/ /\ last'.callback[1].error = "StorageError"
                          /\ last'.error = "StorageError"
                          /\ storage' = storage]_vars

\* a get_session found a cached and stored session expired, the store
\* deleted its document and the call failed with NotFoundError
C11_Witness ==
    /\ last.op = "get_session"
    /\ last.error = "NotFoundError"
    /\ last.callback = <<StorageCall("delete", last.arg, "none")>>
    /\ last.arg \notin DOMAIN sessions
    /\ ~Exists(storage, last.arg)


(***************************************************************************)
(* C12: get_session of an id that is not in the cache consults the store.  *)
(***************************************************************************)
\* the stored document of key is past its expiry at time t
DocPastExpiry(stor, key, t) ==
    /\ stor[key].data.expires_at # None
    /\ t > FromIsoformat(stor[key].data.expires_at[1])

\* this step is a get_session of an id that is not cached
GetUncachedStep == GetSessionStep /\ last'.arg \notin DOMAIN sessions

\* a live document is returned as a session that serialises back to the
\* document, and is cached under the id; other cached sessions stay
LiveDocumentCase(sid) ==
    (/\ Exists(storage, sid) /\ storage[sid].kind = "json"
     /\ ~DocPastExpiry(storage, sid, now)) =>
        /\ last'.error = "none"
        /\ last'.value # None
        /\ sid \in DOMAIN sessions'
        /\ sessions'[sid] = last'.value[1]
        /\ ToDict(heap'[last'.value[1]]) = storage[sid].data
        /\ \A k \in DOMAIN sessions :
              k \in DOMAIN sessions' /\ sessions'[k] = sessions[k]
        /\ storage' = storage

\* no document: NotFoundError, nothing changes
NoDocumentCase(sid) ==
    ~Exists(storage, sid) =>
        /\ last'.error = "NotFoundError"
        /\ UNCHANGED <<sessions, storage, heap>>

\* C12 as claimed
C12_UncachedGetConsultsStore ==
    [][GetUncachedStep =>
          LET sid == last'.arg
          IN  /\ LiveDocumentCase(sid)
              /\ NoDocumentCase(sid)
              /\ (/\ Exists(storage, sid) /\ storage[sid].kind = "json"
                  /\ DocPastExpiry(storage, sid, now)) =>
                    /\ last'.error = "NotFoundError"
                    /\ ~Exists(storage', sid)
                    /\ sessions' = sessions]_vars

\* C12 amended: an expired document is never cached; the store is asked to
\* delete it, and the call fails with NotFoundError when it does and with
\* the store's StorageError, the document kept, when it does not
C12_UncachedGetConsultsStoreUnlessDeleteFails ==
    [][GetUncachedStep =>
          LET sid == last'.arg
          IN  /\ LiveDocumentCase(sid)
              /\ NoDocumentCase(sid)
              /\ (/\ Exists(storage, sid) /\ storage[sid].kind = "json"
                  /\ DocPastExpiry(storage, sid, now)) =>
                    /\ sessions' = sessions
                    /\ heap' = heap
                    /\ Len(last'.callback) = 2
                    /\ last'.callback[2].method = "delete"
                    /\ \/ /\ last'.callback[2].error = "none"
                          /\ last'.error = "NotFoundError"
                          /\ ~Exists(storage', sid)
                       \/ /\ last'.callback[2].error = "StorageError"
                          /\ last'.error = "StorageError"
                          /\ storage' = storage]_vars

\* a get_session loaded the document of an uncached id, found it expired,
\* had the store delete it and failed with NotFoundError, another session
\* being cached
C12_Witness ==
    /\ last.op = "get_session"
    /\ last.error = "NotFoundError"
    /\ last.callback = <<StorageCall("load", last.arg, "none"),
                         StorageCall("delete", last.arg, "none")>>
    /\ ~Exists(storage, last.arg)
    /\ last.arg \notin DOMAIN sessions
    /\ DOMAIN sessions # {}


(***************************************************************************)
(* C13: update_session(id, state) raises NotFoundError exactly when id is  *)
(* in neither the cache nor the store, and then changes nothing; in every  *)
(* other case it succeeds and the cache holds state under id, whatever the *)
(* outcome of the store's save.                                            *)
(***************************************************************************)
C13_UpdateNotFoundIffAbsentFromBoth ==
    [][(last'.op = "update_session" /\ now' = now) =>
          LET sid == last'.arg[1]
              absent == sid \notin DOMAIN sessions /\ ~Exists(storage, sid)
          IN  /\ (last'.error = "NotFoundError") <=> absent
              /\ absent => UNCHANGED <<sessions, storage, heap>>
              /\ ~absent =>
                    /\ last'.error = "none"
                    /\ sid \in DOMAIN sessions'
                    /\ sessions'[sid] = last'.arg[2]]_vars

\* an update_session succeeded although the store's save failed: the id is
\* cached with the new state and the store still holds an older document
C13_Witness ==
    /\ last.op = "update_session"
    /\ last.error = "none"
    /\ last.callback = <<StorageCall("save", last.arg[1], "StorageError")>>
    /\ last.arg[1] \in DOMAIN sessions
    /\ Exists(storage, last.arg[1])
    /\ storage[last.arg[1]].kind = "json"
    /\ storage[last.arg[1]].data # ToDict(heap[sessions[last.arg[1]]])


(***************************************************************************)
(* C14: delete_session(id) raises NotFoundError only if id is in neither   *)
(* the cache nor the store; if id is in at least one of them, also when it *)
(* is cached and has no document in the store, the call succeeds and id is *)
(* in neither afterwards.  Stated for the calls in which the store's       *)
(* delete does not fail with a StorageError.                               *)
(***************************************************************************)
C14_DeleteNotFoundOnlyIfAbsentFromBoth ==
    [][(/\ last'.op = "delete_session" /\ now' = now
        /\ last'.callback[1].error # "StorageError") =>
          LET sid == last'.arg
              present == sid \in DOMAIN sessions \/ Exists(storage, sid)
          IN  /\ last'.error = "NotFoundError" => ~present
              /\ present =>
                    /\ last'.error = "none"
                    /\ sid \notin DOMAIN sessions'
                    /\ ~Exists(storage', sid)]_vars


(***************************************************************************)
(* C15: read-your-writes.  Once update_session(id, s) has returned, and    *)
(* until id is updated again, deleted or expired, get_session(id) returns  *)
(* a session whose session_id is id, whose updated_at is the time of that  *)
(* update and whose conversation holds the messages of s in order, with    *)
(* the same roles and contents.                                            *)
(***************************************************************************)
\* roles and contents of a conversation's messages, in order
RolesAndContents(msgs) ==
    [i \in 1..Len(msgs) |-> <<msgs[i].role, msgs[i].content>>]

C15_ReadYourWrites ==
    [][(/\ GetSessionStep
        /\ last'.arg \in DOMAIN updated
        /\ ~PastExpiry(heap[updated[last'.arg].state], now)) =>
          LET sid == last'.arg
              s == heap[updated[sid].state]
          IN  /\ last'.error = "none"
              /\ LET got == heap'[last'.value[1]]
                 IN  /\ got.session_id = sid
                     /\ got.updated_at = updated[sid].at
                     /\ RolesAndContents(got.conversation.messages)
                          = RolesAndContents(s.conversation.messages)]_vars


(***************************************************************************)
(* C16: cleanup_expired_sessions removes from the cache exactly the        *)
(* sessions that are expired when it is called, leaves every other cache   *)
(* entry as it was, and returns the number of sessions it removed from the *)
(* cache, also when the store's delete fails or finds no file.             *)
(***************************************************************************)
C16_CleanupRemovesExactlyExpired ==
    [][(last'.op = "cleanup_expired_sessions" /\ now' = now) =>
          LET expired == {sid \in DOMAIN sessions :
                             PastExpiry(heap[sessions[sid]], now)}
          IN  /\ last'.error = "none"
              /\ DOMAIN sessions' = DOMAIN sessions \ expired
              /\ \A sid \in DOMAIN sessions' : sessions'[sid] = sessions[sid]
              /\ last'.value =
                    Some(Cardinality(DOMAIN sessions \ DOMAIN sessions'))]_vars

\* a sweep removed two expired sessions from the cache and returned 2; the
\* store had no file for one of them and failed to delete the file of the
\* other
C16_Witness ==
    /\ last.op = "cleanup_expired_sessions"
    /\ last.value = Some(2)
    /\ sessions = EmptyMap
    /\ {last.callback[i].error : i \in 1..Len(last.callback)}
          = {"NotFoundError", "StorageError"}


(***************************************************************************)
(* C17: constructing a StateManager over a store never fails; afterwards   *)
(* the cache holds exactly the stored sessions that deserialize and are    *)
(* not expired, the files that do not deserialize are left in the store,   *)
(* and the expired sessions are not cached and have been deleted from the  *)
(* store.                                                                  *)
(***************************************************************************)
\* the keys of the store whose file is a document / is one past its expiry
Documents(stor) == {k \in DOMAIN stor : stor[k].kind = "json"}

ExpiredDocuments(stor, t) ==
    {k \in Documents(stor) : DocPastExpiry(stor, k, t)}

\* this step constructs a StateManager
InitStep == last'.op = "__init__" /\ now' = now

\* what C17 says of the sessions that are not expired and of the files that
\* do not deserialize
StartupLoadsLive ==
    LET live == Documents(storage) \ ExpiredDocuments(storage, now)
    IN  /\ last'.error = "none"
        /\ DOMAIN sessions' = live
        /\ \A k \in live : /\ ToDict(heap'[sessions'[k]]) = storage[k].data
                           /\ storage'[k] = storage[k]
        /\ \A k \in DOMAIN storage \ Documents(storage) :
              k \in DOMAIN storage' /\ storage'[k] = storage[k]

\* C17 as claimed: every expired document has been deleted
C17_StartupLoadsLiveDeletesExpired ==
    [][InitStep =>
          /\ StartupLoadsLive
          /\ \A k \in ExpiredDocuments(storage, now) :
                ~Exists(storage', k)]_vars

\* C17 amended: every expired document has been deleted, unless the store
\* failed to delete it: then it is left as it was
C17_StartupLoadsLiveDeletesExpiredUnlessDeleteFails ==
    [][InitStep =>
          /\ StartupLoadsLive
          /\ \A k \in ExpiredDocuments(storage, now) :
                \/ ~Exists(storage', k)
                \/ /\ \E i \in 1..Len(last'.callback) :
                         last'.callback[i]
                            = StorageCall("delete", k, "StorageError")
                   /\ Exists(storage', k)
                   /\ storage'[k] = storage[k]]_vars

\* a StateManager was constructed over a store with a live session, which
\* it cached, and an expired one, which it deleted
C17_Witness ==
    /\ last.op = "__init__"
    /\ Cardinality(DOMAIN sessions) = 1
    /\ DOMAIN storage = DOMAIN sessions
    /\ \E k \in SessionIds :
          StorageCall("delete", k, "none")
             \in {last.callback[i] : i \in 1..Len(last.callback)}


(***************************************************************************)
(* C18: in every reachable state, every cached session whose expires_at is *)
(* set has expires_at >= created_at, whatever TTL the manager was          *)
(* configured with and whatever hours extend_expiry was called with.       *)
(***************************************************************************)
C18_ExpiresAtNotBeforeCreatedAt ==
    \A sid \in DOMAIN sessions :
       LET state == heap[sessions[sid]]
       IN  state.expires_at # None => state.expires_at[1] >= state.created_at


(***************************************************************************)
(* PluginManager (src/agent/plugins/base.py).  A plugin object has the     *)
(* name its class gives it and the instance attribute enabled; the manager *)
(* maps names to plugin objects.                                           *)
(***************************************************************************)
PluginNames == {"calculator", "weather"}

\* what get_schema returns: a dict with the keys it has and the value of
\* its "name" key if it has one, or a value that is not a dict
DictSchema(keys, name) == [kind |-> "dict", keys |-> keys, name |-> name]

ListSchema == [kind |-> "list", keys |-> {}, name |-> None]

\* a function-calling schema
FunctionSchema(name) ==
    DictSchema({"name", "description", "parameters"}, Some(name))

\* a plugin class: the values of its name, description and version
\* properties and the value its get_schema returns
PluginClass(name, description, version, schema) ==
    [name |-> name, description |-> description, version |-> version,
     schema |-> schema]

\* the plugins of src/agent/plugins
ShippedPlugins ==
    {PluginClass("calculator", "calculates", "1.0.0",
                 FunctionSchema("calculate")),
     PluginClass("weather", "forecasts", "1.0.0",
                 FunctionSchema("get_weather"))}

\* subclasses of BasePlugin a caller can write: an empty name, description
\* or version, a schema without a name, a schema that is not a dict
DefectivePlugins ==
    {PluginClass("", "calculates", "1.0.0", FunctionSchema("calculate")),
     PluginClass("calculator", "", "1.0.0", FunctionSchema("calculate")),
     PluginClass("calculator", "calculates", "", FunctionSchema("calculate")),
     PluginClass("calculator", "calculates", "1.0.0",
                 DictSchema({"description"}, None)),
     PluginClass("calculator", "calculates", "1.0.0", ListSchema)}

\* the reference of the next plugin object constructed
NewPlugin == Cardinality(DOMAIN instances) + 1

\* a caller constructs a plugin of a class: BasePlugin.__init__
ConstructPlugin(class) ==
    /\ NewPlugin <= MaxPluginObjects
    /\ instances' = Put(instances, NewPlugin,
                        [name |-> class.name,
                         description |-> class.description,
                         version |-> class.version,
                         schema |-> class.schema,
                         enabled |-> TRUE])
    /\ plugins' = plugins
    /\ prev' = last
    /\ last' = [op |-> "BasePlugin", arg |-> class.name,
                value |-> Some(NewPlugin), error |-> "none",
                callback |-> None]
    /\ UNCHANGED <<ctx_vars, appended, store_vars, retry, thread_vars>>

\* _validate_plugin(plugin), for an instance of a subclass of BasePlugin
\* whose properties can be read: name, description and version are read and
\* dropped, then the schema must be a dict with a "name" key;
\* get_schema_ok: plugin.get_schema() does not raise
ValidatePlugin(plugin, get_schema_ok) ==
    IF ~get_schema_ok THEN "PluginError"
    ELSE IF plugin.schema.kind # "dict" \/ "name" \notin plugin.schema.keys
    THEN "PluginError"
    ELSE "none"

\* a variant that stores the plugin before it initializes it
RegisterPlugin_StoresFirst(ref, get_schema_ok, initialize_ok) ==
    /\ ref \in DOMAIN instances
    /\ LET valid == ValidatePlugin(instances[ref], get_schema_ok) = "none"
       IN  /\ plugins' = IF valid
                         THEN Put(plugins, instances[ref].name, ref)
                         ELSE plugins
           /\ last' = [op |-> "register_plugin", arg |-> ref,
                       value |-> None,
                       error |-> IF valid /\ initialize_ok
                                 THEN "none" ELSE "PluginError",
                       callback |-> IF valid
                                    THEN <<"get_schema", "initialize">>
                                    ELSE <<"get_schema">>]
    /\ instances' = instances
    /\ prev' = last
    /\ UNCHANGED <<ctx_vars, appended, store_vars, retry, thread_vars>>

\* register_plugin(plugin): validate, initialize, store under plugin.name
\* (an entry of that name is overwritten); every exception becomes
\* PluginError.  plugin.enabled is read for the log only.  callback: the
\* methods of the plugin that were called; initialize_ok:
\* plugin.initialize() does not raise
RegisterPlugin(ref, get_schema_ok, initialize_ok) ==
    /\ ref \in DOMAIN instances
    /\ LET valid == ValidatePlugin(instances[ref], get_schema_ok) = "none"
       IN  /\ plugins' = IF valid /\ initialize_ok
                         THEN Put(plugins, instances[ref].name, ref)
                         ELSE plugins
           /\ last' = [op |-> "register_plugin", arg |-> ref,
                       value |-> None,
                       error |-> IF valid /\ initialize_ok
                                 THEN "none" ELSE "PluginError",
                       callback |-> IF valid
                                    THEN <<"get_schema", "initialize">>
                                    ELSE <<"get_schema">>]
    /\ instances' = instances
    /\ prev' = last
    /\ UNCHANGED <<ctx_vars, appended, store_vars, retry, thread_vars>>

\* a variant that removes the name before it calls cleanup
UnregisterPlugin_RemovesFirst(name, cleanup_ok) ==
    /\ plugins' = IF name \in DOMAIN plugins
                  THEN Remove(plugins, name) ELSE plugins
    /\ instances' = instances
    /\ prev' = last
    /\ last' = [op |-> "unregister_plugin", arg |-> name, value |-> None,
                error |-> IF name \in DOMAIN plugins /\ cleanup_ok
                          THEN "none" ELSE "PluginError",
                callback |-> IF name \in DOMAIN plugins
                             THEN Some(plugins[name]) ELSE None]
    /\ UNCHANGED <<ctx_vars, appended, store_vars, retry, thread_vars>>

\* unregister_plugin(name); cleanup_ok: plugin.cleanup() does not raise;
\* callback: the plugin whose cleanup was called
UnregisterPlugin(name, cleanup_ok) ==
    /\ plugins' = IF name \in DOMAIN plugins /\ cleanup_ok
                  THEN Remove(plugins, name) ELSE plugins
    /\ instances' = instances
    /\ prev' = last
    /\ last' = [op |-> "unregister_plugin", arg |-> name, value |-> None,
                error |-> IF name \in DOMAIN plugins /\ cleanup_ok
                          THEN "none" ELSE "PluginError",
                callback |-> IF name \in DOMAIN plugins
                             THEN Some(plugins[name]) ELSE None]
    /\ UNCHANGED <<ctx_vars, appended, store_vars, retry, thread_vars>>

\* a variant that sets the flag of every registered plugin
SetEnabled_All(name, flag) ==
    IF name \notin DOMAIN plugins
    THEN [instances |-> instances, error |-> "PluginError"]
    ELSE [instances |->
             [r \in DOMAIN instances |->
                 IF \E n \in DOMAIN plugins : plugins[n] = r
                 THEN [instances[r] EXCEPT !.enabled = flag]
                 ELSE instances[r]],
          error |-> "none"]

\* enable_plugin / disable_plugin: plugin = self.get_plugin(name), which
\* raises PluginError when the name is not registered, then
\* plugin.enabled = flag
SetEnabled(name, flag) ==
    IF name \notin DOMAIN plugins
    THEN [instances |-> instances, error |-> "PluginError"]
    ELSE [instances |-> [instances EXCEPT ![plugins[name]].enabled = flag],
          error |-> "none"]

\* enable_plugin(name)
EnablePlugin(name) ==
    /\ instances' = SetEnabled(name, TRUE).instances
    /\ plugins' = plugins
    /\ prev' = last
    /\ last' = [op |-> "enable_plugin", arg |-> name, value |-> None,
                error |-> SetEnabled(name, TRUE).error, callback |-> None]
    /\ UNCHANGED <<ctx_vars, appended, store_vars, retry, thread_vars>>

\* disable_plugin(name)
DisablePlugin(name) ==
    /\ instances' = SetEnabled(name, FALSE).instances
    /\ plugins' = plugins
    /\ prev' = last
    /\ last' = [op |-> "disable_plugin", arg |-> name, value |-> None,
                error |-> SetEnabled(name, FALSE).error, callback |-> None]
    /\ UNCHANGED <<ctx_vars, appended, store_vars, retry, thread_vars>>

\* the context dicts execute_plugin is called with
Contexts == {"{expression: 2+3}", "{city: Seoul}"}

\* the result dicts plugin.execute returns
Results == {"{}", "{result: 5}"}

\* what plugin.execute(context) can do: raise, or return a result dict
ExecuteOutcomes ==
    {[raises |-> TRUE, result |-> None]}
       \cup {[raises |-> FALSE, result |-> Some(r)] : r \in Results}

\* one call of plugin.execute(context) and what it did
ExecuteCall(ref, context, outcome) ==
    [plugin |-> ref, context |-> context, outcome |-> outcome]

\* a variant that does not test the enabled flag
ExecutePlugin_IgnoresFlag(name, context, outcome) ==
    /\ UNCHANGED plugins
    /\ UNCHANGED instances
    /\ prev' = last
    /\ last' =
          IF name \notin DOMAIN plugins
          THEN [op |-> "execute_plugin", arg |-> <<name, context>>,
                value |-> Some("not found"), error |-> "PluginError",
                callback |-> <<>>]
          ELSE IF outcome.raises
          THEN [op |-> "execute_plugin", arg |-> <<name, context>>,
                value |-> None, error |-> "PluginExecutionError",
                callback |-> <<ExecuteCall(plugins[name], context, outcome)>>]
          ELSE [op |-> "execute_plugin", arg |-> <<name, context>>,
                value |-> outcome.result, error |-> "none",
                callback |-> <<ExecuteCall(plugins[name], context, outcome)>>]
    /\ UNCHANGED <<ctx_vars, appended, store_vars, retry, thread_vars>>

\* a variant that calls plugin.execute a second time when it raised
ExecutePlugin_Retries(name, context, outcome) ==
    /\ UNCHANGED plugins
    /\ UNCHANGED instances
    /\ prev' = last
    /\ last' =
          IF name \notin DOMAIN plugins
          THEN [op |-> "execute_plugin", arg |-> <<name, context>>,
                value |-> Some("not found"), error |-> "PluginError",
                callback |-> <<>>]
          ELSE IF ~instances[plugins[name]].enabled
          THEN [op |-> "execute_plugin", arg |-> <<name, context>>,
                value |-> Some("disabled"), error |-> "PluginError",
                callback |-> <<>>]
          ELSE IF outcome.raises
          THEN [op |-> "execute_plugin", arg |-> <<name, context>>,
                value |-> None, error |-> "PluginExecutionError",
                callback |-> <<ExecuteCall(plugins[name], context, outcome),
                               ExecuteCall(plugins[name], context, outcome)>>]
          ELSE [op |-> "execute_plugin", arg |-> <<name, context>>,
                value |-> outcome.result, error |-> "none",
                callback |-> <<ExecuteCall(plugins[name], context, outcome)>>]
    /\ UNCHANGED <<ctx_vars, appended, store_vars, retry, thread_vars>>

\* execute_plugin(name, context).  value: the result, or the reason of the
\* PluginError; callback: the calls of plugin.execute that were made
ExecutePlugin(name, context, outcome) ==
    /\ UNCHANGED plugins
    /\ UNCHANGED instances
    /\ prev' = last
    /\ last' =
          IF name \notin DOMAIN plugins
          THEN [op |-> "execute_plugin", arg |-> <<name, context>>,
                value |-> Some("not found"), error |-> "PluginError",
                callback |-> <<>>]
          ELSE IF ~instances[plugins[name]].enabled
          THEN [op |-> "execute_plugin", arg |-> <<name, context>>,
                value |-> Some("disabled"), error |-> "PluginError",
                callback |-> <<>>]
          ELSE IF outcome.raises
          THEN [op |-> "execute_plugin", arg |-> <<name, context>>,
                value |-> None, error |-> "PluginExecutionError",
                callback |-> <<ExecuteCall(plugins[name], context, outcome)>>]
          ELSE [op |-> "execute_plugin", arg |-> <<name, context>>,
                value |-> outcome.result, error |-> "none",
                callback |-> <<ExecuteCall(plugins[name], context, outcome)>>]
    /\ UNCHANGED <<ctx_vars, appended, store_vars, retry, thread_vars>>

\* the orders in which self.plugins.values() can yield the registered
\* plugins (a dict yields in insertion order, which the model of
\* self.plugins does not keep: every order is explored)
ValuesOrders ==
    {order \in UNION {[1..n -> DOMAIN plugins] : n \in 0..MaxPluginObjects} :
        /\ Len(order) = Cardinality(DOMAIN plugins)
        /\ \A i, j \in 1..Len(order) : i # j => order[i] # order[j]}

\* get_enabled_plugins(): the enabled ones of self.plugins.values()
RECURSIVE GetEnabledPlugins(_)
GetEnabledPlugins(order) ==
    IF order = <<>> THEN <<>>
    ELSE LET ref == plugins[Head(order)]
         IN  (IF instances[ref].enabled THEN <<ref>> ELSE <<>>)
                \o GetEnabledPlugins(Tail(order))

\* a variant whose loop ends at the first get_schema that raises
RECURSIVE SchemasOf_Aborts(_, _)
SchemasOf_Aborts(refs, raising) ==
    IF refs = <<>> THEN <<>>
    ELSE IF Head(refs) \in raising THEN <<>>
    ELSE <<instances[Head(refs)].schema>>
            \o SchemasOf_Aborts(Tail(refs), raising)

\* the loop of get_schemas over the enabled plugins; raising: the plugins
\* whose get_schema raises (logged, the loop goes on)
RECURSIVE SchemasOf(_, _)
SchemasOf(refs, raising) ==
    IF refs = <<>> THEN <<>>
    ELSE (IF Head(refs) \in raising THEN <<>>
          ELSE <<instances[Head(refs)].schema>>)
            \o SchemasOf(Tail(refs), raising)

\* get_schemas().  callback: the plugins whose get_schema was called
GetSchemas(order, raising) ==
    /\ order \in ValuesOrders
    /\ UNCHANGED plugins
    /\ UNCHANGED instances
    /\ prev' = last
    /\ last' = [op |-> "get_schemas", arg |-> raising,
                value |-> Some(SchemasOf(GetEnabledPlugins(order), raising)),
                error |-> "none",
                callback |-> GetEnabledPlugins(order)]
    /\ UNCHANGED <<ctx_vars, appended, store_vars, retry, thread_vars>>

(***************************************************************************)
(* SpecPlugins: a PluginManager right after construction, and callers that *)
(* construct the shipped plugins and register, unregister, enable, disable *)
(* and execute them and list their schemas.                                *)
(***************************************************************************)
InitPlugins ==
    /\ plugins = EmptyMap
    /\ instances = EmptyMap
    /\ prev = InitLast
    /\ NoRetry
    /\ NoStore
    /\ messages = <<>>
    /\ max_messages = 1
    /\ model_name = "gpt-4"
    /\ file = NoFile
    /\ appended = 0
    /\ last = InitLast

NextPlugins ==
    \/ \E class \in ShippedPlugins : ConstructPlugin(class)
    \/ \E ref \in 1..MaxPluginObjects, s \in BOOLEAN, i \in BOOLEAN :
          RegisterPlugin(ref, s, i)
    \/ \E name \in PluginNames, ok \in BOOLEAN : UnregisterPlugin(name, ok)
    \/ \E name \in PluginNames : EnablePlugin(name)
    \/ \E name \in PluginNames : DisablePlugin(name)
    \/ \E name \in PluginNames, c \in Contexts, o \in ExecuteOutcomes :
          ExecutePlugin(name, c, o)
    \/ \E order \in ValuesOrders, raising \in SUBSET DOMAIN instances :
          GetSchemas(order, raising)

SpecPlugins == InitPlugins /\ [][NextPlugins]_vars

(***************************************************************************)
(* SpecRegister: callers that construct plugins of the shipped classes and *)
(* of classes with an empty name, description or version or with a schema  *)
(* that is not a dict with a name, and register and unregister them.       *)
(***************************************************************************)
RegisteredNames == PluginNames \cup {""}

NextRegister ==
    \/ \E class \in ShippedPlugins \cup DefectivePlugins :
          ConstructPlugin(class)
    \/ \E ref \in 1..MaxPluginObjects, s \in BOOLEAN, i \in BOOLEAN :
          RegisterPlugin(ref, s, i)
    \/ \E name \in RegisteredNames, ok \in BOOLEAN :
          UnregisterPlugin(name, ok)

SpecRegister == InitPlugins /\ [][NextRegister]_vars


(***************************************************************************)
(* C19: a successful register_plugin of a name that is not registered      *)
(* leaves that name registered with a plugin whose enabled flag is true,   *)
(* whatever happened to the plugin object before.                          *)
(***************************************************************************)
C19_RegisterPutsEnabled ==
    [][\A ref \in DOMAIN instances :
          (/\ last'.op = "register_plugin"
           /\ last'.arg = ref
           /\ last'.error = "none"
           /\ instances[ref].name \notin DOMAIN plugins)
          => /\ instances[ref].name \in DOMAIN plugins'
             /\ instances'[plugins'[instances[ref].name]].enabled]_vars

(***************************************************************************)
(* C20: enable_plugin(name) and disable_plugin(name) fail with PluginError *)
(* and change nothing when name is not registered; otherwise they set the  *)
(* enabled flag of the plugin registered as name to true / false, leave    *)
(* the registered names and every other plugin object as they were, and a  *)
(* second call of the same kind changes nothing more; an execute_plugin    *)
(* of a name right after a disable and then an enable of it invokes the    *)
(* plugin.                                                                 *)
(***************************************************************************)
FlagOp(flag) == IF flag THEN "enable_plugin" ELSE "disable_plugin"

C20_EnableDisableFrame ==
    [][\A name \in PluginNames, flag \in BOOLEAN :
          /\ (last'.op = FlagOp(flag) /\ last'.arg = name)
              => IF name \notin DOMAIN plugins
                 THEN /\ last'.error = "PluginError"
                      /\ plugins' = plugins
                      /\ instances' = instances
                 ELSE /\ last'.error = "none"
                      /\ plugins' = plugins
                      /\ DOMAIN instances' = DOMAIN instances
                      /\ instances'[plugins[name]].enabled = flag
                      /\ instances'[plugins[name]].name
                            = instances[plugins[name]].name
                      /\ \A r \in DOMAIN instances \ {plugins[name]} :
                            instances'[r] = instances[r]
                      /\ (SetEnabled(name, flag).instances)' = instances'
                      /\ (SetEnabled(name, flag).error)' = "none"
          /\ (/\ last'.op = "execute_plugin" /\ last'.arg[1] = name
              /\ last.op = "enable_plugin" /\ last.arg = name
              /\ last.error = "none"
              /\ prev.op = "disable_plugin" /\ prev.arg = name
              /\ prev.error = "none")
              => \E o \in ExecuteOutcomes :
                    last'.callback
                       = <<ExecuteCall(plugins[name], last'.arg[2], o)>>]_vars

\* calculator was disabled, then enabled, then executed and its execute was
\* invoked, while weather is registered and still disabled
C20_Witness ==
    /\ last.op = "execute_plugin" /\ last.arg[1] = "calculator"
    /\ last.callback # <<>>
    /\ prev.op = "enable_plugin" /\ prev.arg = "calculator"
    /\ prev.error = "none"
    /\ "weather" \in DOMAIN plugins
    /\ ~instances[plugins["weather"]].enabled


(***************************************************************************)
(* C21: register_plugin of a plugin whose name, description or version is  *)
(* empty, or whose schema is not a dict with a name key, fails with        *)
(* PluginError, does not call plugin.initialize() and leaves the           *)
(* registered plugins as they were.                                        *)
(***************************************************************************)
Defective(plugin) ==
    \/ plugin.name = ""
    \/ plugin.description = ""
    \/ plugin.version = ""
    \/ plugin.schema.kind # "dict"
    \/ "name" \notin plugin.schema.keys

Called(method) ==
    \E i \in 1..Len(last'.callback) : last'.callback[i] = method

C21_RegisterRejectsDefective ==
    [][\A ref \in DOMAIN instances :
          (/\ last'.op = "register_plugin"
           /\ last'.arg = ref
           /\ Defective(instances[ref]))
          => /\ last'.error = "PluginError"
             /\ ~Called("initialize")
             /\ plugins' = plugins]_vars


(***************************************************************************)
(* C22: when plugin.initialize() raises during register_plugin, the call   *)
(* fails with PluginError and the registry is as before the call: the new  *)
(* plugin is not stored, and a plugin registered under the same name stays *)
(* registered with its enabled flag, so that an execute_plugin of the name *)
(* right after still invokes it when it is enabled.                        *)
(***************************************************************************)
\* the record of a register_plugin(ref) whose plugin.initialize() raised
InitializeRaised(call, ref) ==
    /\ call.op = "register_plugin"
    /\ call.arg = ref
    /\ call.error = "PluginError"
    /\ \E i \in 1..Len(call.callback) : call.callback[i] = "initialize"

C22_InitializeFailureLeavesRegistry ==
    [][\A ref \in DOMAIN instances :
          /\ (InitializeRaised(last', ref) /\ prev' = last)
             => /\ plugins' = plugins
                /\ instances' = instances
          /\ (/\ InitializeRaised(last, ref)
              /\ last'.op = "execute_plugin"
              /\ last'.arg[1] = instances[ref].name
              /\ instances[ref].name \in DOMAIN plugins
              /\ instances[plugins[instances[ref].name]].enabled)
             => \E o \in ExecuteOutcomes :
                   last'.callback
                      = <<ExecuteCall(plugins[instances[ref].name],
                                      last'.arg[2], o)>>]_vars

\* a second calculator failed to initialize while a first one is registered
\* and disabled
C22_Witness ==
    /\ InitializeRaised(last, 2)
    /\ instances[2].name = "calculator"
    /\ "calculator" \in DOMAIN plugins
    /\ plugins["calculator"] = 1
    /\ ~instances[1].enabled


(***************************************************************************)
(* C23: unregister_plugin(name) fails with PluginError and changes nothing *)
(* when name is not registered (cleanup is not called); when               *)
(* plugin.cleanup() raises it fails with PluginError and the plugin stays  *)
(* registered with its flag; when cleanup succeeds the name is removed and *)
(* nothing else changes, and an execute_plugin(name) right after fails as  *)
(* not found.                                                              *)
(***************************************************************************)
C23_UnregisterOutcomes ==
    [][\A name \in PluginNames :
          /\ (last'.op = "unregister_plugin" /\ last'.arg = name
              /\ prev' = last)
             => /\ instances' = instances
                /\ IF name \notin DOMAIN plugins
                   THEN /\ last'.error = "PluginError"
                        /\ last'.callback = None
                        /\ plugins' = plugins
                   ELSE /\ last'.callback = Some(plugins[name])
                        /\ \/ /\ last'.error = "PluginError"
                              /\ plugins' = plugins
                           \/ /\ last'.error = "none"
                              /\ plugins' = Remove(plugins, name)
          /\ (/\ last.op = "unregister_plugin" /\ last.arg = name
              /\ last.error = "none"
              /\ last'.op = "execute_plugin" /\ last'.arg[1] = name)
             => /\ last'.error = "PluginError"
                /\ last'.value = Some("not found")
                /\ last'.callback = <<>>]_vars

\* the cleanup of the disabled calculator raised and it is still registered
\* and disabled, while weather is registered and enabled
C23_Witness ==
    /\ last.op = "unregister_plugin" /\ last.arg = "calculator"
    /\ last.error = "PluginError" /\ last.callback # None
    /\ "calculator" \in DOMAIN plugins
    /\ ~instances[plugins["calculator"]].enabled
    /\ "weather" \in DOMAIN plugins
    /\ instances[plugins["weather"]].enabled


(***************************************************************************)
(* C24: execute_plugin(name, context) calls plugin.execute if and only if  *)
(* name is registered and the enabled flag of the plugin registered under  *)
(* it is true; otherwise it fails with PluginError, as not found when the  *)
(* name is not registered and as disabled when the flag is false.          *)
(***************************************************************************)
C24_ExecuteOnlyRegisteredEnabled ==
    [][\A name \in PluginNames :
          (last'.op = "execute_plugin" /\ last'.arg[1] = name
           /\ prev' = last)
          => /\ last'.callback # <<>>
                <=> (name \in DOMAIN plugins
                     /\ instances[plugins[name]].enabled)
             /\ name \notin DOMAIN plugins
                => (last'.error = "PluginError"
                    /\ last'.value = Some("not found"))
             /\ (name \in DOMAIN plugins
                 /\ ~instances[plugins[name]].enabled)
                => (last'.error = "PluginError"
                    /\ last'.value = Some("disabled"))]_vars

\* calculator was disabled and the execute_plugin that followed was
\* rejected as disabled without a call of its execute
C24_Witness ==
    /\ last.op = "execute_plugin" /\ last.arg[1] = "calculator"
    /\ last.value = Some("disabled") /\ last.callback = <<>>
    /\ prev.op = "disable_plugin" /\ prev.arg = "calculator"
    /\ prev.error = "none"

(***************************************************************************)
(* C25: for a registered and enabled plugin, execute_plugin calls          *)
(* plugin.execute exactly once, with the context it was given; when the    *)
(* call returns, execute_plugin returns that result, and when it raises,   *)
(* execute_plugin fails with PluginExecutionError; the registered names    *)
(* and the plugin objects are unchanged in both cases.                     *)
(***************************************************************************)
C25_ExecuteOnceReturnsResult ==
    [][\A name \in PluginNames :
          (/\ last'.op = "execute_plugin" /\ last'.arg[1] = name
           /\ prev' = last
           /\ name \in DOMAIN plugins
           /\ instances[plugins[name]].enabled)
          => /\ Len(last'.callback) = 1
             /\ last'.callback[1].plugin = plugins[name]
             /\ last'.callback[1].context = last'.arg[2]
             /\ IF last'.callback[1].outcome.raises
                THEN last'.error = "PluginExecutionError"
                ELSE /\ last'.error = "none"
                     /\ last'.value = last'.callback[1].outcome.result
             /\ plugins' = plugins
             /\ instances' = instances]_vars

\* the execute of weather raised on the second context while calculator is
\* registered too
C25_Witness ==
    /\ last.op = "execute_plugin"
    /\ last.arg = <<"weather", "{city: Seoul}">>
    /\ last.error = "PluginExecutionError"
    /\ Len(last.callback) = 1
    /\ "weather" \in DOMAIN plugins
    /\ "calculator" \in DOMAIN plugins


(***************************************************************************)
(* C26: get_schemas never fails and returns the schema of a registered     *)
(* plugin exactly once when the plugin is enabled and its get_schema does  *)
(* not raise, and not at all otherwise; it returns nothing else, so a      *)
(* get_schema that raises does not end the listing.                        *)
(***************************************************************************)
\* how many times schema occurs in the list schemas
Occurrences(schemas, schema) ==
    Cardinality({i \in 1..Len(schemas) : schemas[i] = schema})

\* the registered names whose schema get_schemas has to return
Listed(raising) ==
    {n \in DOMAIN plugins :
        instances[plugins[n]].enabled /\ plugins[n] \notin raising}

C26_SchemasOfEnabled ==
    [][(last'.op = "get_schemas" /\ prev' = last)
       => /\ last'.error = "none"
          /\ last'.value # None
          /\ \A n \in DOMAIN plugins :
                Occurrences(last'.value[1], instances[plugins[n]].schema)
                   = IF n \in Listed(last'.arg) THEN 1 ELSE 0
          /\ Len(last'.value[1]) = Cardinality(Listed(last'.arg))]_vars

\* the get_schema of the enabled calculator raised and the schema of the
\* enabled weather was returned all the same
C26_Witness ==
    /\ last.op = "get_schemas"
    /\ "calculator" \in DOMAIN plugins /\ "weather" \in DOMAIN plugins
    /\ instances[plugins["calculator"]].enabled
    /\ instances[plugins["weather"]].enabled
    /\ plugins["calculator"] \in last.arg
    /\ last.value = Some(<<instances[plugins["weather"]].schema>>)


(***************************************************************************)
(* ResponseGenerator._retry_with_backoff                                   *)
(* (src/agent/response_generator.py).  retry holds the locals of one call: *)
(* pc (where the coroutine is), attempt and last_exception, with           *)
(* config.max_retries and two histories: outcomes, what each call of func  *)
(* did, and waits, the arguments of the asyncio.sleep calls that returned. *)
(***************************************************************************)
\* the exceptions func raises and the values it returns
Exceptions == {"TimeoutError", "ConnectionError"}

Responses == {"hello", "bye"}

FuncOutcomes ==
    {[raises |-> Some(e), result |-> None] : e \in Exceptions}
       \cup {[raises |-> None, result |-> Some(r)] : r \in Responses}

\* a variant whose delay grows by two seconds per attempt
WaitTime_Linear(attempt) == 2 * (attempt + 1)

\* wait_time = 2**attempt
WaitTime(attempt) == 2 ^ attempt

\* a caller awaits _retry_with_backoff(func) on a generator whose
\* config.max_retries is n (AgentConfig accepts 1 to 10)
RetryWithBackoff(n) ==
    /\ retry.pc \in {"none", "returned", "raised"}
    /\ retry' = [pc |-> "call", max_retries |-> n, attempt |-> 0,
                 outcomes |-> <<>>, waits |-> <<>>, last_exception |-> None]
    /\ last' = [op |-> "_retry_with_backoff", arg |-> Some(n), value |-> None,
                error |-> "pending", callback |-> None]
    /\ UNCHANGED <<ctx_vars, appended, store_vars, plugin_vars, thread_vars>>

\* `return await func(*args, **kwargs)` and the except clause: a result is
\* returned; an exception is kept in last_exception and, unless this was
\* the last attempt, a sleep follows; after the last attempt the loop ends
\* and ResponseGenerationError is raised from last_exception
CallFunc(outcome) ==
    /\ retry.pc = "call"
    /\ LET called == [retry EXCEPT !.outcomes = Append(@, outcome)]
       IN  IF outcome.raises = None
           THEN /\ retry' = [called EXCEPT !.pc = "returned"]
                /\ last' = [last EXCEPT !.value = outcome.result,
                                        !.error = "none"]
           ELSE IF retry.attempt < retry.max_retries - 1
           THEN /\ retry' = [called EXCEPT !.pc = "sleep",
                                           !.last_exception = outcome.raises]
                /\ last' = last
           ELSE /\ retry' = [called EXCEPT !.pc = "raised",
                                           !.attempt = @ + 1,
                                           !.last_exception = outcome.raises]
                /\ last' = [last EXCEPT !.error = "ResponseGenerationError",
                                        !.callback = outcome.raises]
    /\ UNCHANGED <<ctx_vars, appended, store_vars, plugin_vars, thread_vars>>

\* `await asyncio.sleep(wait_time)` returns and the loop goes on to the
\* next attempt
Sleep ==
    /\ retry.pc = "sleep"
    /\ retry' = [retry EXCEPT !.pc = "call",
                              !.waits = Append(@, WaitTime(retry.attempt)),
                              !.attempt = @ + 1]
    /\ UNCHANGED <<ctx_vars, appended, store_vars, plugin_vars, thread_vars,
                   last>>

(***************************************************************************)
(* SpecRetry: calls of _retry_with_backoff, one after the other, on        *)
(* generators configured with any max_retries; a call of func returns or   *)
(* raises and a sleep ends (weak fairness of the coroutine's steps).       *)
(***************************************************************************)
InitRetry ==
    /\ NoRetry
    /\ NoPlugins
    /\ NoStore
    /\ messages = <<>>
    /\ max_messages = 1
    /\ model_name = "gpt-4"
    /\ file = NoFile
    /\ appended = 0
    /\ last = InitLast

RetrySteps ==
    \/ \E o \in FuncOutcomes : CallFunc(o)
    \/ Sleep

NextRetry ==
    \/ \E n \in 1..MaxRetries : RetryWithBackoff(n)
    \/ \E o \in FuncOutcomes : CallFunc(o)
    \/ Sleep

SpecRetry == InitRetry /\ [][NextRetry]_vars /\ WF_vars(RetrySteps)

(***************************************************************************)
(* C27: a call of _retry_with_backoff with max_retries = N >= 1 always     *)
(* ends, and when it has ended func was called at most N times, every      *)
(* call but the last raised, the sleeps were 2^0, 2^1, ... one after each  *)
(* failed call but the last one of N, and either the last call returned    *)
(* and its result is returned, or N calls raised and                       *)
(* ResponseGenerationError is raised from the last exception.              *)
(***************************************************************************)
RECURSIVE Backoff(_)
Backoff(k) == IF k = 0 THEN <<>> ELSE Append(Backoff(k - 1), 2 ^ (k - 1))

RetryEnded ==
    LET n == Len(retry.outcomes)
    IN  /\ n >= 1 /\ n <= retry.max_retries
        /\ \A i \in 1..(n - 1) : retry.outcomes[i].raises # None
        /\ \/ /\ retry.pc = "returned"
              /\ retry.outcomes[n].raises = None
              /\ last.error = "none"
              /\ last.value = retry.outcomes[n].result
              /\ retry.waits = Backoff(n - 1)
           \/ /\ retry.pc = "raised"
              /\ n = retry.max_retries
              /\ retry.outcomes[n].raises # None
              /\ last.error = "ResponseGenerationError"
              /\ last.callback = retry.outcomes[n].raises
              /\ retry.waits = Backoff(n - 1)

C27_RetryEndsWithinBudget ==
    (retry.pc \in {"call", "sleep"})
       ~> (retry.pc \in {"returned", "raised"} /\ RetryEnded)

\* three calls raised, with sleeps of 1 and 2 seconds between them, and the
\* error of the last one was raised
C27_Witness ==
    /\ retry.pc = "raised"
    /\ retry.max_retries = 3
    /\ Len(retry.outcomes) = 3
    /\ retry.waits = <<1, 2>>
    /\ last.error = "ResponseGenerationError"


(***************************************************************************)
(* The auto-save thread and stop().  The thread runs auto_save_worker:     *)
(* `while self.auto_save_enabled:` (worker_pc = "while"), then             *)
(* time.sleep(interval) (worker_pc = "sleep"), then self._auto_save(),     *)
(* and back; it has ended when worker_pc = "ended".  stop() clears the     *)
(* flag (stop_pc = "_auto_save" afterwards), calls self._auto_save() and   *)
(* returns (stop_pc = "returned").  _auto_save holds self.lock, so a pass  *)
(* is one step.                                                            *)
(***************************************************************************)
\* a variant that saves only the sessions that have no file in the store
RECURSIVE SaveAll_NewOnly(_, _, _, _, _, _)
SaveAll_NewOnly(todo, sess, hp, stor, outcomes, calls) ==
    IF todo = {} THEN [storage |-> stor, calls |-> calls]
    ELSE LET sid == CHOOSE x \in todo : TRUE
         IN  IF Exists(stor, sid)
             THEN SaveAll_NewOnly(todo \ {sid}, sess, hp, stor, outcomes,
                                  calls)
             ELSE SaveAll_NewOnly(todo \ {sid}, sess, hp,
                     SaveResult(stor, sid, ToDict(hp[sess[sid]]),
                                outcomes[sid]),
                     outcomes,
                     Append(calls, StorageCall("save", sid,
                                               SaveError(outcomes[sid]))))

\* the `for session_id, state in self.sessions.items()` loop of _auto_save
\* over the ids still to do: storage.save on each, its exceptions caught and
\* logged.  outcomes: what the save of each key does
RECURSIVE SaveAll(_, _, _, _, _, _)
SaveAll(todo, sess, hp, stor, outcomes, calls) ==
    IF todo = {} THEN [storage |-> stor, calls |-> calls]
    ELSE LET sid == CHOOSE x \in todo : TRUE
         IN  SaveAll(todo \ {sid}, sess, hp,
                     SaveResult(stor, sid, ToDict(hp[sess[sid]]),
                                outcomes[sid]),
                     outcomes,
                     Append(calls, StorageCall("save", sid,
                                               SaveError(outcomes[sid]))))

\* a variant that saves nothing and only cleans up
AutoSave_CleanupOnly(sess, hp, stor, t, outcomes, fails) ==
    LET expired == ExpiredSessions(sess, hp, t)
    IN  CleanupLoop(expired, sess, stor, fails, <<>>)
           @@ [expired |-> expired]

\* _auto_save() at time t: every cached session is saved, then
\* cleanup_expired_sessions() runs.  fails: the keys whose unlink fails
AutoSave(sess, hp, stor, t, outcomes, fails) ==
    LET saved == SaveAll(DOMAIN sess, sess, hp, stor, outcomes, <<>>)
        expired == ExpiredSessions(sess, hp, t)
    IN  CleanupLoop(expired, sess, saved.storage, fails, saved.calls)
           @@ [expired |-> expired]

\* what the saves of one pass do, key by key: all succeed, or none can
\* open its file
PassOutcomes == {[sid \in SessionIds |-> o] : o \in {"ok", "open_fails"}}

\* the hours after which the clock of SpecStop ticks
StopHours == {0, 1}

\* the thread tests `while self.auto_save_enabled`
WorkerLoop ==
    /\ worker_pc = "while"
    /\ worker_pc' = IF auto_save_enabled THEN "sleep" ELSE "ended"
    /\ UNCHANGED <<auto_save_enabled, stop_pc, threads, lock, agent_vars,
                   store_vars, ctx_vars, appended, plugin_vars, retry, last>>

\* time.sleep(self.auto_save_interval) returns and the thread runs
\* self._auto_save()
WorkerAutoSave(outcomes) ==
    /\ worker_pc = "sleep"
    /\ worker_pc' = "while"
    /\ LET r == AutoSave(sessions, heap, storage, now, outcomes, {})
       IN  /\ sessions' = r.sessions
           /\ storage' = r.storage
           /\ updated' = [sid \in DOMAIN updated \ r.expired |-> updated[sid]]
           /\ last' = [op |-> "auto_save_worker", arg |-> None,
                       value |-> None, error |-> "none",
                       callback |-> r.calls]
    /\ UNCHANGED <<auto_save_enabled, stop_pc, threads, lock, agent_vars,
                   heap, now, default_ttl_hours, ctx_vars, appended,
                   plugin_vars, retry>>

\* stop(): self.auto_save_enabled = False
StopClearFlag ==
    /\ stop_pc = "none"
    /\ auto_save_enabled' = FALSE
    /\ stop_pc' = "_auto_save"
    /\ UNCHANGED <<worker_pc, threads, lock, agent_vars, store_vars,
                   ctx_vars, appended, plugin_vars, retry, last>>

\* stop(): self._auto_save(), and the return
StopAutoSave(outcomes) ==
    /\ stop_pc = "_auto_save"
    /\ stop_pc' = "returned"
    /\ LET r == AutoSave(sessions, heap, storage, now, outcomes, {})
       IN  /\ sessions' = r.sessions
           /\ storage' = r.storage
           /\ updated' = [sid \in DOMAIN updated \ r.expired |-> updated[sid]]
           /\ last' = [op |-> "stop", arg |-> None, value |-> None,
                       error |-> "none", callback |-> r.calls]
    /\ UNCHANGED <<auto_save_enabled, worker_pc, threads, lock, agent_vars,
                   heap, now, default_ttl_hours, ctx_vars, appended,
                   plugin_vars, retry>>

(***************************************************************************)
(* SpecStop: a StateManager constructed over an empty store whose unlink   *)
(* does not fail, callers that create sessions and add a message to the    *)
(* conversation of a session object they hold, the clock, the auto-save    *)
(* thread, and one caller of stop().                                       *)
(***************************************************************************)
NextStop ==
    \/ \E sid \in SessionIds, o \in {"ok", "open_fails"} :
          CreateSession(Some("u1"), sid, o)
    \/ \E ref \in 1..MaxObjects : AddMessage(ref, "user", <<"a">>)
    \/ now \in StopHours /\ Tick
    \/ WorkerLoop
    \/ \E outcomes \in PassOutcomes : WorkerAutoSave(outcomes)
    \/ StopClearFlag
    \/ \E outcomes \in PassOutcomes : StopAutoSave(outcomes)

InitStop ==
    /\ InitStore
    /\ default_ttl_hours = 1

SpecStop == InitStop /\ [][NextStop]_vars


(***************************************************************************)
(* C28: stop() returns after a pass of _auto_save that began with the loop *)
(* flag cleared and saved every cached session; when the saves of that     *)
(* pass succeeded, every session then in the memory cache is not expired   *)
(* and has a stored document equal to its in-memory state, and no stored   *)
(* session is expired.                                                     *)
(***************************************************************************)
StopReturns == stop_pc = "_auto_save" /\ stop_pc' = "returned"

SavesSucceeded(calls) ==
    \A i \in 1..Len(calls) : calls[i].method = "save" => calls[i].error = "none"

C28_StopFlushes ==
    [][StopReturns
       => /\ ~auto_save_enabled
          /\ last'.op = "stop"
          /\ \A sid \in DOMAIN sessions :
                \E i \in 1..Len(last'.callback) :
                   /\ last'.callback[i].method = "save"
                   /\ last'.callback[i].key = sid
          /\ SavesSucceeded(last'.callback)
             => /\ \A sid \in DOMAIN sessions' :
                      /\ ~IsExpired(heap'[sessions'[sid]], now')
                      /\ Exists(storage', sid)
                      /\ storage'[sid]
                            = JsonFile(ToDict(heap'[sessions'[sid]]))
                /\ \A sid \in ExpiredSessions(sessions, heap, now) :
                      sid \notin DOMAIN sessions' /\ ~Exists(storage', sid)
                /\ \A k \in DOMAIN storage' :
                      storage'[k].kind = "json"
                         => ~IsExpired(FromDict(storage'[k].data), now')]_vars

\* stop() has returned: its pass wrote the message of a session whose
\* create-time save had failed and removed an expired session
C28_Witness ==
    /\ stop_pc = "returned" /\ last.op = "stop"
    /\ SavesSucceeded(last.callback)
    /\ \E i \in 1..Len(last.callback) :
          last.callback[i].method = "delete" /\ last.callback[i].error = "none"
    /\ \E sid \in DOMAIN sessions :
          /\ Len(heap[sessions[sid]].conversation.messages) = 1
          /\ Exists(storage, sid)
          /\ storage[sid] = JsonFile(ToDict(heap[sessions[sid]]))

(***************************************************************************)
(* C29: once stop() has returned, the auto-save thread runs no further     *)
(* pass of _auto_save.                                                     *)
(***************************************************************************)
WorkerPass == worker_pc = "sleep" /\ worker_pc' = "while"

C29_NoPassAfterStop ==
    [][stop_pc = "returned" => ~WorkerPass]_vars


(***************************************************************************)
(* SpecAutoSave: a StateManager as in SpecStop whose storage writes        *)
(* succeed, but for the save of create_session, which may fail; the        *)
(* auto-save thread is scheduled: its loop test is weakly fair and so is   *)
(* the end of its sleep, the step from "sleep" back to "while" that only   *)
(* WorkerAutoSave takes.                                                   *)
(***************************************************************************)
SavesOk == [sid \in SessionIds |-> "ok"]

NextAutoSave ==
    \/ \E sid \in SessionIds, o \in {"ok", "open_fails"} :
          CreateSession(Some("u1"), sid, o)
    \/ \E ref \in 1..MaxObjects : AddMessage(ref, "user", <<"a">>)
    \/ now \in StopHours /\ Tick
    \/ WorkerLoop
    \/ WorkerAutoSave(SavesOk)
    \/ StopClearFlag
    \/ StopAutoSave(SavesOk)

SpecAutoSave ==
    /\ InitStop
    /\ [][NextAutoSave]_vars
    /\ WF_vars(WorkerLoop)
    /\ WF_worker_pc(WorkerPass)

(***************************************************************************)
(* C30: while stop() has not been called, a session of the memory cache    *)
(* whose state differs from its stored document (or that has none, its     *)
(* create-time save having failed) is eventually written as it is,         *)
(* unless it leaves the cache or expires first.                            *)
(***************************************************************************)
Unsaved(sid) ==
    /\ sid \in DOMAIN sessions
    /\ ~IsExpired(heap[sessions[sid]], now)
    /\ \/ ~Exists(storage, sid)
       \/ storage[sid] # JsonFile(ToDict(heap[sessions[sid]]))

C35_CacheKeyIsSessionId ==
    \A sid \in DOMAIN sessions : heap[sessions[sid]].session_id = sid


(***************************************************************************)
(* C40 (SpecRetrieve): the non-system turns get_context returns stand in   *)
(* the order in which they were inserted into the window (they are the     *)
(* most recent non-system turns of the window, in window order), also when *)
(* two of them carry equal timestamps or when timestamps do not increase   *)
(* with insertion order.                                                   *)
(***************************************************************************)
C40_InsertionOrder ==
    [][last'.op = "get_context" =>
          LET out == SelectSeq(last'.value, NotSystem)
              other == SelectSeq(messages, NotSystem)
          IN  /\ Len(out) <= Len(other)
              /\ out = SubSeq(other, Len(other) - Len(out) + 1, Len(other))
      ]_vars


(***************************************************************************)
(* SpecLoad: a window under add_to_context, summarize_old_context, clear   *)
(* and load_from_file, the file being any document another program or an   *)
(* earlier run left at the path: a well-formed one (the three keys, every  *)
(* message with a valid role and content) or a malformed one.              *)
(***************************************************************************)
\* the turns of the persisted documents
DocTurns == {Message(r, <<"a">>, 0, None) : r \in {"user", "system"}}

\* well-formed persisted documents: what save_to_file writes for a window of
\* at most MaxLen turns, with any model name and any max_messages
WellFormedDocuments ==
    {JsonFile(SaveData(w, m, n)) :
        w \in UNION {[1..k -> DocTurns] : k \in 0..MaxLen},
        m \in 1..MaxMessagesBound, n \in ModelNames}

\* documents load_from_file rejects: no file, no JSON, no "messages" key, a
\* message without "content", a role outside the Literal, empty content
MalformedDocuments ==
    {NoFile, Garbage}
        \cup {JsonFile([model_name |-> n, max_messages |-> m]) :
                 n \in ModelNames, m \in 1..MaxMessagesBound}
        \cup {JsonFile([model_name |-> n, max_messages |-> m,
                        messages |-> <<bad>>]) :
                 n \in ModelNames, m \in 1..MaxMessagesBound,
                 bad \in {[role |-> "user"],
                          [role |-> "tool", content |-> <<"a">>],
                          [role |-> "user", content |-> <<>>]}}

\* the turns the callers of SpecLoad add
LoadTurns == {Message(r, <<"a">>, 0, None) : r \in {"user", "system"}}

InitLoad ==
    /\ messages = <<>>
    /\ max_messages \in 1..MaxMessagesBound
    /\ model_name = "gpt-4"
    /\ file \in WellFormedDocuments \cup MalformedDocuments
    /\ appended = 0
    /\ NoStore
    /\ NoPlugins
    /\ NoRetry
    /\ last = InitLast

NextLoad ==
    \/ \E msg \in LoadTurns : AddToContext(msg) /\ UNCHANGED <<appended, store_vars, plugin_vars, retry, thread_vars>>
    \/ \E t \in Times :
          SummarizeOldContext(Some(<<"S">>), t) /\ UNCHANGED <<appended, store_vars, plugin_vars, retry, thread_vars>>
    \/ Clear /\ UNCHANGED <<appended, store_vars, plugin_vars, retry, thread_vars>>
    \/ LoadFromFile /\ UNCHANGED <<appended, store_vars, plugin_vars, retry, thread_vars>>

SpecLoad == InitLoad /\ [][NextLoad]_vars

(***************************************************************************)
(* C33 (SpecLoad): in every reachable state of a ContextManager, under     *)
(* add_to_context, summarize_old_context, clear and load_from_file, the    *)
(* number of turns with a role other than system is at most max_messages.  *)
(***************************************************************************)
C33_WindowWithinMaxMessages == NonSystemCount(messages) <= max_messages

(***************************************************************************)
(* C34 (SpecLoad): a load_from_file that fails raises the not-found or the *)
(* malformed-document error and leaves model name, max_messages and turn   *)
(* list as they were before the call.                                      *)
(***************************************************************************)
C34_FailedLoadLeavesWindow ==
    [][last'.op = "load_from_file" /\ last'.error # "none" =>
          /\ last'.error \in {"FileNotFoundError", "ValueError",
                              "ValidationError"}
          /\ UNCHANGED <<model_name, max_messages, messages>>
      ]_vars


\* the plugin objects the registry holds
Held == {plugins[name] : name \in DOMAIN plugins}

(***************************************************************************)
(* C36 (SpecPlugins): plugin lifecycle pairing.  The registry holds only   *)
(* instances whose initialize() a successful register_plugin has called,   *)
(* so the pairing is: an instance leaves the registry only in a step that  *)
(* calls its cleanup(), an unregister_plugin; in particular a              *)
(* register_plugin that overwrites a registered plugin of the same name    *)
(* cleans the replaced instance up.                                        *)
(***************************************************************************)
C36_LeavesRegistryOnlyCleanedUp ==
    [][\A ref \in Held :
          ref \notin Held' =>
              /\ last'.op = "unregister_plugin"
              /\ last'.callback = Some(ref)
      ]_vars


(***************************************************************************)
(* execute_plugin and unregister_plugin statement by statement.            *)
(* PluginManager has no lock, so the statements of calls made by different *)
(* threads interleave.  threads[t] is the call thread t makes: pc is the   *)
(* statement it is about to run ("returned" and "raised" when the call is  *)
(* over), plugin its local variable, invoked whether it has called the     *)
(* plugin's method (execute, cleanup), error the exception that left the   *)
(* call.                                                                   *)
(***************************************************************************)
PluginThreads == {"t1", "t2"}

PluginCall(op, name) ==
    [op |-> op, pc |-> "check", name |-> name, plugin |-> None,
     invoked |-> FALSE, error |-> "none"]

\* thread t of the call in progress takes the step that turns its record
\* into rec
PluginStep(t, rec) ==
    /\ threads' = Put(threads, t, rec)
    /\ UNCHANGED <<instances, prev, lock, agent_vars, auto_save_enabled,
                   worker_pc, stop_pc, last, ctx_vars, appended, store_vars,
                   retry>>

At(t, op, pc) ==
    t \in DOMAIN threads /\ threads[t].op = op /\ threads[t].pc = pc

\* a thread calls execute_plugin(name, context) or unregister_plugin(name)
StartPluginCall(t, op, name) ==
    /\ t \notin DOMAIN threads
    /\ plugins' = plugins
    /\ PluginStep(t, PluginCall(op, name))

\* `if name not in self.plugins: raise PluginError(...)`, of both methods
CheckRegistered(t, op) ==
    /\ At(t, op, "check")
    /\ plugins' = plugins
    /\ PluginStep(t, IF threads[t].name \in DOMAIN plugins
                     THEN [threads[t] EXCEPT !.pc = "load"]
                     ELSE [threads[t] EXCEPT !.pc = "raised",
                                             !.error = "PluginError"])

\* execute_plugin: `plugin = self.plugins[name]`, outside the try: the
\* KeyError of a name removed since the test leaves the call as it is
ExecuteLoad(t) ==
    /\ At(t, "execute_plugin", "load")
    /\ plugins' = plugins
    /\ PluginStep(t, IF threads[t].name \in DOMAIN plugins
                     THEN [threads[t] EXCEPT
                              !.pc = "enabled",
                              !.plugin = Some(plugins[threads[t].name])]
                     ELSE [threads[t] EXCEPT !.pc = "raised",
                                             !.error = "KeyError"])

\* execute_plugin: `if not plugin.enabled: raise PluginError(...)`
ExecuteEnabled(t) ==
    /\ At(t, "execute_plugin", "enabled")
    /\ plugins' = plugins
    /\ PluginStep(t, IF instances[threads[t].plugin[1]].enabled
                     THEN [threads[t] EXCEPT !.pc = "execute"]
                     ELSE [threads[t] EXCEPT !.pc = "raised",
                                             !.error = "PluginError"])

\* execute_plugin: `result = plugin.execute(context)` and the return, or
\* the PluginExecutionError that wraps what the plugin raised
ExecuteInvoke(t, raises) ==
    /\ At(t, "execute_plugin", "execute")
    /\ plugins' = plugins
    /\ PluginStep(t, IF raises
                     THEN [threads[t] EXCEPT !.pc = "raised",
                                             !.invoked = TRUE,
                                             !.error = "PluginExecutionError"]
                     ELSE [threads[t] EXCEPT !.pc = "returned",
                                             !.invoked = TRUE])

\* unregister_plugin: `plugin = self.plugins[name]`, inside the try: a
\* KeyError becomes PluginError
UnregisterLoad(t) ==
    /\ At(t, "unregister_plugin", "load")
    /\ plugins' = plugins
    /\ PluginStep(t, IF threads[t].name \in DOMAIN plugins
                     THEN [threads[t] EXCEPT
                              !.pc = "cleanup",
                              !.plugin = Some(plugins[threads[t].name])]
                     ELSE [threads[t] EXCEPT !.pc = "raised",
                                             !.error = "PluginError"])

\* unregister_plugin: `plugin.cleanup()`
UnregisterCleanup(t, cleanup_ok) ==
    /\ At(t, "unregister_plugin", "cleanup")
    /\ plugins' = plugins
    /\ PluginStep(t, IF cleanup_ok
                     THEN [threads[t] EXCEPT !.pc = "del",
                                             !.invoked = TRUE]
                     ELSE [threads[t] EXCEPT !.pc = "raised",
                                             !.invoked = TRUE,
                                             !.error = "PluginError"])

\* unregister_plugin: `del self.plugins[name]` and the return
UnregisterDel(t) ==
    /\ At(t, "unregister_plugin", "del")
    /\ plugins' = IF threads[t].name \in DOMAIN plugins
                  THEN Remove(plugins, threads[t].name) ELSE plugins
    /\ PluginStep(t, IF threads[t].name \in DOMAIN plugins
                     THEN [threads[t] EXCEPT !.pc = "returned"]
                     ELSE [threads[t] EXCEPT !.pc = "raised",
                                             !.error = "PluginError"])

(***************************************************************************)
(* SpecRace: a PluginManager, a caller that constructs, registers and      *)
(* disables the shipped plugins, and then threads that each make one call  *)
(* of execute_plugin or unregister_plugin.                                 *)
(***************************************************************************)
NextRace ==
    \/ \E class \in ShippedPlugins : threads = <<>> /\ ConstructPlugin(class)
    \/ \E ref \in 1..MaxPluginObjects :
          threads = <<>> /\ RegisterPlugin(ref, TRUE, TRUE)
    \/ \E name \in PluginNames : threads = <<>> /\ DisablePlugin(name)
    \/ \E t \in PluginThreads, name \in PluginNames,
          op \in {"execute_plugin", "unregister_plugin"} :
          StartPluginCall(t, op, name)
    \/ \E t \in PluginThreads, op \in {"execute_plugin", "unregister_plugin"} :
          CheckRegistered(t, op)
    \/ \E t \in PluginThreads : ExecuteLoad(t)
    \/ \E t \in PluginThreads : ExecuteEnabled(t)
    \/ \E t \in PluginThreads, raises \in BOOLEAN : ExecuteInvoke(t, raises)
    \/ \E t \in PluginThreads : UnregisterLoad(t)
    \/ \E t \in PluginThreads, ok \in BOOLEAN : UnregisterCleanup(t, ok)
    \/ \E t \in PluginThreads : UnregisterDel(t)

SpecRace == InitPlugins /\ [][NextRace]_vars

\* cleanup() has been called on the plugin object ref
CleanupCalled(ref) ==
    \E t \in DOMAIN threads :
        /\ threads[t].op = "unregister_plugin"
        /\ threads[t].invoked
        /\ threads[t].plugin = Some(ref)

(***************************************************************************)
(* C37 (SpecRace): when execute_plugin runs concurrently with              *)
(* unregister_plugin, plugin.execute is never invoked on an instance whose *)
(* cleanup() has been called, and no error other than a PluginError (the   *)
(* not-found or disabled PluginError, or PluginExecutionError, its         *)
(* subclass) leaves execute_plugin.                                        *)
(***************************************************************************)
C37_NoExecuteAfterCleanup ==
    [][\A t \in DOMAIN threads :
          threads[t].op = "execute_plugin" =>
              /\ ~threads[t].invoked /\ threads'[t].invoked
                    => ~CleanupCalled(threads[t].plugin[1])
              /\ threads'[t].pc = "raised"
                    => threads'[t].error \in {"PluginError",
                                              "PluginExecutionError"}
      ]_vars


(***************************************************************************)
(* The store's lock and the call chains that take it.  Every public        *)
(* operation of StateManager runs its body in `with self.lock:`, and some  *)
(* bodies call another public operation.  threads[t] is the call stack of  *)
(* thread t, innermost frame last; a frame is the method, where it stands  *)
(* ("acquire": about to enter the with block, "body", "release": about to  *)
(* leave it; stop, which takes no lock itself, has "call" and "return")    *)
(* and, for cleanup_expired_sessions, the expired sessions left to delete. *)
(***************************************************************************)
StoreThreads == {"caller1", "caller2", "worker"}

\* what each thread calls: the auto-save thread runs _auto_save
EntryPoints(t) ==
    IF t = "worker" THEN {"_auto_save"}
    ELSE {"get_session", "delete_session", "cleanup_expired_sessions",
          "stop"}

Frame(fn, pc, todo) == [fn |-> fn, pc |-> pc, todo |-> todo]

Stack(t) == IF t \in DOMAIN threads THEN threads[t] ELSE <<>>

Top(t) == Stack(t)[Len(Stack(t))]

Standing(t, pc) == Stack(t) # <<>> /\ Top(t).pc = pc

\* the stack of t with its innermost frame replaced by the frames fs
WithTop(t, fs) == SubSeq(Stack(t), 1, Len(Stack(t)) - 1) \o fs

LockStep(t, stack) ==
    /\ threads' = Put(threads, t, stack)
    /\ UNCHANGED <<auto_save_enabled, worker_pc, stop_pc, agent_vars, last,
                   ctx_vars, appended, store_vars, plugin_vars, retry>>

\* a threading.Lock in place of the RLock: its owner cannot take it again
CanAcquire_NotReentrant(t) == lock.owner = None

\* threading.RLock: free, or owned by the thread that asks
CanAcquire(t) == lock.owner = None \/ lock.owner = Some(t)

\* a thread calls a public operation
CallOperation(t, fn) ==
    /\ Stack(t) = <<>>
    /\ fn \in EntryPoints(t)
    /\ lock' = lock
    /\ LockStep(t, <<Frame(fn, IF fn = "stop" THEN "call" ELSE "acquire", 0)>>)

\* `with self.lock:` is entered; n: the expired sessions the body of
\* cleanup_expired_sessions finds
Acquire(t, n) ==
    /\ Standing(t, "acquire")
    /\ CanAcquire(t)
    /\ n = 0 \/ Top(t).fn = "cleanup_expired_sessions"
    /\ lock' = [owner |-> Some(t), count |-> lock.count + 1]
    /\ LockStep(t, WithTop(t, <<Frame(Top(t).fn, "body", n)>>))

\* the body of the with block up to the next call of a public operation, or
\* to its end; expired: get_session finds the cached session expired
Body(t, expired) ==
    /\ Standing(t, "body")
    /\ lock' = lock
    /\ LET f == Top(t)
       IN  CASE f.fn = "get_session" ->
                  LockStep(t, WithTop(t,
                      IF expired
                      THEN <<Frame(f.fn, "release", 0),
                             Frame("delete_session", "acquire", 0)>>
                      ELSE <<Frame(f.fn, "release", 0)>>))
             [] f.fn = "cleanup_expired_sessions" ->
                  LockStep(t, WithTop(t,
                      IF f.todo > 0
                      THEN <<Frame(f.fn, "body", f.todo - 1),
                             Frame("delete_session", "acquire", 0)>>
                      ELSE <<Frame(f.fn, "release", 0)>>))
             [] f.fn = "_auto_save" ->
                  LockStep(t, WithTop(t,
                      <<Frame(f.fn, "release", 0),
                        Frame("cleanup_expired_sessions", "acquire", 0)>>))
             [] OTHER ->
                  LockStep(t, WithTop(t, <<Frame(f.fn, "release", 0)>>))

\* the with block is left, by return or by an exception, and the method
\* is over
Release(t) ==
    /\ Standing(t, "release")
    /\ lock' = IF lock.count = 1 THEN [owner |-> None, count |-> 0]
               ELSE [lock EXCEPT !.count = @ - 1]
    /\ LockStep(t, WithTop(t, <<>>))

\* stop(): self._auto_save()
StopCalls(t) ==
    /\ Standing(t, "call")
    /\ lock' = lock
    /\ LockStep(t, WithTop(t, <<Frame("stop", "return", 0),
                                Frame("_auto_save", "acquire", 0)>>))

\* stop() returns
StopReturn(t) ==
    /\ Standing(t, "return")
    /\ lock' = lock
    /\ LockStep(t, WithTop(t, <<>>))

\* the steps of a call in progress
Runs(t) ==
    \/ \E n \in 0..Cardinality(SessionIds) : Acquire(t, n)
    \/ \E expired \in BOOLEAN : Body(t, expired)
    \/ Release(t)
    \/ StopCalls(t)
    \/ StopReturn(t)

(***************************************************************************)
(* SpecLock: two callers and the auto-save thread; a thread that is ready  *)
(* to run runs in the end, and a thread waiting for the lock gets it in    *)
(* the end if it is free again and again.                                  *)
(***************************************************************************)
NextLock ==
    \/ \E t \in StoreThreads : \E fn \in EntryPoints(t) : CallOperation(t, fn)
    \/ \E t \in StoreThreads, n \in 0..Cardinality(SessionIds) : Acquire(t, n)
    \/ \E t \in StoreThreads, expired \in BOOLEAN : Body(t, expired)
    \/ \E t \in StoreThreads : Release(t)
    \/ \E t \in StoreThreads : StopCalls(t)
    \/ \E t \in StoreThreads : StopReturn(t)

SpecLock ==
    /\ InitStore
    /\ [][NextLock]_vars
    /\ \A t \in StoreThreads : SF_vars(Runs(t))

NextConcurrent ==
    \/ \E sid \in SessionIds : CreateSession(Some("u1"), sid, "ok")
    \/ \E sid \in SessionIds, ref \in 1..MaxObjects :
          UpdateSession(sid, ref, "ok")
    \/ \E sid \in SessionIds : GetSession(sid, TRUE)
    \/ \E sid \in SessionIds : DeleteSession(sid, TRUE)
    \/ WorkerLoop
    \/ WorkerAutoSave(SavesOk)

SpecConcurrent == InitStop /\ [][NextConcurrent]_vars

(***************************************************************************)
(* C31 (SpecConcurrent): whenever no operation holds the store lock, every *)
(* cached session has a stored document, and it is that session's own: no  *)
(* document is written under another session's key (the document under a   *)
(* key carries that key as its session_id).                                *)
(***************************************************************************)
C31_DocumentUnderOwnKey ==
    \A sid \in DOMAIN sessions :
        /\ Exists(storage, sid)
        /\ storage[sid].kind = "json"
        /\ storage[sid].data.session_id = sid


(***************************************************************************)
(* ConversationAgent (conversation_agent.py) and MessageProcessor          *)
(* (message_processor.py).  The agent's context window is the              *)
(* ContextManager of messages and max_messages; conversation is its        *)
(* durable Conversation, metrics its metrics dict, tools its tool list.    *)
(***************************************************************************)
MaxMessageLength == 3   \* config.max_message_length
MaxTurns == 3           \* longest conversation explored

\* re.sub(r"\s+", " ", text): every run of whitespace becomes one space
RECURSIVE CollapseSpaces(_)
CollapseSpaces(text) ==
    IF Len(text) < 2 THEN text
    ELSE IF text[1] = " " /\ text[2] = " " THEN CollapseSpaces(Tail(text))
    ELSE <<text[1]>> \o CollapseSpaces(Tail(text))

\* html.escape of one character
EscapeChar(c) ==
    CASE c = "<" -> <<"&", "l", "t", ";">>
      [] c = ">" -> <<"&", "g", "t", ";">>
      [] c = "&" -> <<"&", "a", "m", "p", ";">>
      [] OTHER -> <<c>>

\* html.escape
RECURSIVE HtmlEscape(_)
HtmlEscape(text) ==
    IF text = <<>> THEN <<>>
    ELSE EscapeChar(Head(text)) \o HtmlEscape(Tail(text))

\* MessageProcessor.preprocess: strip, collapse, escape, truncate
Preprocess(message) ==
    LET processed == HtmlEscape(CollapseSpaces(Strip(message)))
    IN  IF Len(processed) > MaxMessageLength
        THEN SubSeq(processed, 1, MaxMessageLength) ELSE processed

\* MessageProcessor.validate raises ValueError (min_length is 1, there are no
\* forbidden words)
ValidateRaises(message) ==
    \/ message = <<>> \/ Strip(message) = <<>>
    \/ Len(message) < 1
    \/ Len(message) > MaxMessageLength

\* metrics[key] += n: KeyError when the key is missing
Increment(m, key, n) == [m EXCEPT ![key] = @ + n]

\* _update_metrics(elapsed_time)
UpdateMetrics(m, elapsed_time) ==
    LET total_messages == m.total_messages + 1
        total_response_time == m.total_response_time + elapsed_time
    IN  [m EXCEPT !.total_messages = total_messages,
                  !.total_response_time = total_response_time,
                  !.average_response_time =
                        total_response_time \div total_messages]

\* the user messages, the per-call tool lists, what the generator does (None:
\* ResponseGenerationError after the retries; a response, which may be empty)
\* and the seconds a call takes
UserMessages == {<<" ">>, <<"a">>, <<"<">>}

Tools == {"search_web"}

ToolArguments == {None, Some(<<>>), Some(<<"search_web">>)}

GenerationOutcomes == {None, Some(<<>>), Some(<<"o", "k", " ">>)}

ElapsedTimes == {1}

\* what chat does from the point where the user turn is in both histories:
\* conv and win are the two histories, m the metrics
ChatGenerate(conv, win, m, active_tools, outcome, t, elapsed_time) ==
    IF outcome = None
    THEN [conversation |-> conv, messages |-> win, metrics |-> m,
          value |-> None, error |-> "ResponseGenerationError"]
    ELSE IF active_tools # <<>> /\ "tool_calls" \notin DOMAIN m
    THEN [conversation |-> conv, messages |-> win, metrics |-> m,
          value |-> None, error |-> "KeyError"]
    ELSE LET m1 == IF active_tools # <<>>
                   THEN Increment(m, "tool_calls", 1) ELSE m
         IN  IF ~ValidContent(outcome[1])
             THEN [conversation |-> conv, messages |-> win, metrics |-> m1,
                   value |-> None, error |-> "ValidationError"]
             ELSE LET assistant_msg ==
                          Message("assistant", outcome[1], t, None)
                  IN  [conversation |-> Append(conv, assistant_msg),
                       messages |-> AddResult(win, max_messages,
                                              assistant_msg),
                       metrics |-> UpdateMetrics(m1, elapsed_time),
                       value |-> outcome, error |-> "none"]

\* chat(user_message, tools).  The result of get_context is passed to the
\* generator and changes nothing; every exception is logged and re-raised
Chat(user_message, tools_arg, outcome, t, elapsed_time) ==
    /\ Len(conversation) + 2 <= MaxTurns
    /\ LET processed == Preprocess(user_message)
           active_tools == IF tools_arg = None THEN tools ELSE tools_arg[1]
           user_msg == Message("user", processed, t, None)
           r == IF ValidateRaises(processed)
                THEN [conversation |-> conversation, messages |-> messages,
                      metrics |-> metrics, value |-> None,
                      error |-> "ValueError"]
                ELSE ChatGenerate(Append(conversation, user_msg),
                                  AddResult(messages, max_messages, user_msg),
                                  metrics, active_tools, outcome, t,
                                  elapsed_time)
       IN  /\ conversation' = r.conversation
           /\ messages' = r.messages
           /\ metrics' = r.metrics
           /\ last' = [op |-> "chat", arg |-> <<user_message, tools_arg>>,
                       value |-> r.value, error |-> r.error,
                       callback |-> None]
    /\ UNCHANGED <<tools, max_messages, model_name, file, appended,
                   store_vars, plugin_vars, retry, auto_save_enabled,
                   worker_pc, stop_pc, threads, lock>>

\* add_tool(tool)
AddTool(tool) ==
    /\ tools' = IF \E i \in 1..Len(tools) : tools[i] = tool
                THEN tools ELSE Append(tools, tool)
    /\ last' = [op |-> "add_tool", arg |-> tool, value |-> None,
                error |-> "none", callback |-> None]
    /\ UNCHANGED <<conversation, metrics, ctx_vars, appended, store_vars,
                   plugin_vars, retry, auto_save_enabled, worker_pc, stop_pc,
                   threads, lock>>

\* remove_tool(tool): list.remove takes the first occurrence out
RemoveTool(tool) ==
    /\ tools' = SelectSeq(tools, LAMBDA x : x # tool)
    /\ last' = [op |-> "remove_tool", arg |-> tool, value |-> None,
                error |-> "none", callback |-> None]
    /\ UNCHANGED <<conversation, metrics, ctx_vars, appended, store_vars,
                   plugin_vars, retry, auto_save_enabled, worker_pc, stop_pc,
                   threads, lock>>

\* reset_conversation(): both histories are cleared and metrics is a new
\* dict
ResetConversation ==
    /\ conversation' = <<>>
    /\ messages' = <<>>
    /\ metrics' = [total_messages |-> 0, total_tokens |-> 0,
                   total_response_time |-> 0, average_response_time |-> 0]
    /\ last' = [op |-> "reset_conversation", arg |-> None, value |-> None,
                error |-> "none", callback |-> None]
    /\ UNCHANGED <<tools, max_messages, model_name, file, appended,
                   store_vars, plugin_vars, retry, auto_save_enabled,
                   worker_pc, stop_pc, threads, lock>>

(***************************************************************************)
(* SpecAgent: a ConversationAgent right after construction, under chat,    *)
(* add_tool, remove_tool and reset_conversation.                           *)
(***************************************************************************)
NextAgent ==
    \/ \E um \in UserMessages, ta \in ToolArguments,
          o \in GenerationOutcomes, t \in Times, e \in ElapsedTimes :
          Chat(um, ta, o, t, e)
    \/ \E tool \in Tools : AddTool(tool)
    \/ \E tool \in Tools : RemoveTool(tool)
    \/ ResetConversation

SpecAgent == InitContext /\ [][NextAgent]_vars

(***************************************************************************)
(* C38 (SpecAgent): chat is all-or-nothing on the history.  A chat call    *)
(* that raises leaves the durable conversation and the context window as   *)
(* they were; a chat call that returns has appended the user turn and then *)
(* the assistant turn to the conversation and has added the two, in that   *)
(* order, to the window.                                                   *)
(***************************************************************************)
C38_ChatAllOrNothing ==
    [][last'.op = "chat" =>
          IF last'.error # "none"
          THEN conversation' = conversation /\ messages' = messages
          ELSE LET n == Len(conversation)
               IN  /\ Len(conversation') = n + 2
                   /\ SubSeq(conversation', 1, n) = conversation
                   /\ conversation'[n + 1].role = "user"
                   /\ conversation'[n + 1].content
                         = Preprocess(last'.arg[1])
                   /\ conversation'[n + 2].role = "assistant"
                   /\ conversation'[n + 2].content = Strip(last'.value[1])
                   /\ messages' =
                         AddResult(AddResult(messages, max_messages,
                                             conversation'[n + 1]),
                                   max_messages, conversation'[n + 2])
      ]_vars

(***************************************************************************)
(* C39 (SpecAgent): after any sequence of chat, add_tool, remove_tool and  *)
(* reset_conversation the metrics map has the keys total_messages,         *)
(* total_tokens, total_response_time, average_response_time and            *)
(* tool_calls.                                                             *)
(***************************************************************************)
C39_MetricsKeys ==
    {"total_messages", "total_tokens", "total_response_time",
     "average_response_time", "tool_calls"} \subseteq DOMAIN metrics

=============================================================================
